---------------------------- MODULE Spec2Model ----------------------------
(***************************************************************************)
(* Model of the data portal's core: the filter-to-SQL translation          *)
(* (services/api.py), the run executor's three aggregation queries         *)
(* (services/api.py) and the in-memory run store (services/state.py).      *)
(*                                                                         *)
(* Python values are modelled as tagged records so that None, strings,     *)
(* lists and tuples can live in one mapping; a Python dict is modelled as  *)
(* the sequence of its items in insertion order.                           *)
(***************************************************************************)
EXTENDS Integers, Sequences, FiniteSets, TLC

VARIABLES
    phase,          \* which operation acted last in the current specification
    domain,         \* the domain argument of the generator / executor
    filters,        \* the filter mapping argument (a Python dict)
    conditions,     \* the local predicate list of the last _build_*_where_clause at its return
    where_clause,   \* WHERE fragment returned by the last _build_*_where_clause
    params,         \* bind-parameter map returned by the last _build_*_where_clause
    calls,          \* number of generator calls made so far
    session_state,  \* st.session_state: a mapping from key to value, empty at first
    op,             \* the last run-store operation and its arguments
    ret,            \* what the last run-store operation returned
    table,          \* the rows of the domain's fact table
    results,        \* the result dict of the last executed run
    new_run,        \* the Run object the Run-button handler holds, None outside it
    issued          \* the queries the last execution sent to the database, in order

vars == <<phase, domain, filters, conditions, where_clause, params, calls, session_state, op, ret,
          table, results, new_run, issued>>

-----------------------------------------------------------------------------
(* Bounds of the model *)

\* most values selected in the first multi-select field of a filter mapping
MaxSel == 2

\* most runs the store holds
MaxRuns == 3

\* most rows of a fact table with freely chosen rows
MaxRows == 2

\* most groups of the breakdown dimension in a fact table
MaxGroups == 12

\* most calls of the WHERE generator in one session
MaxCalls == 2

\* most runs the store holds when runs of every status are stored
MaxArchived == 2

-----------------------------------------------------------------------------
(* Python values *)

PyNone == [type |-> "NoneType"]
PyStr(s) == [type |-> "str", v |-> s]
PyList(xs) == [type |-> "list", v |-> xs]
PyTuple(xs) == [type |-> "tuple", v |-> xs]

\* Python truthiness of a value: None, "", [] and () are falsy
Truthy(x) ==
    CASE x.type = "NoneType" -> FALSE
      [] x.type = "str" -> x.v # ""
      [] OTHER -> x.v # <<>>

\* tuple(reversed(xs)): the elements in the opposite order
tuple_reversed(x) == PyTuple([i \in 1..Len(x.v) |-> x.v[Len(x.v) + 1 - i]])

\* tuple(xs): a tuple with the elements of the list, in order
tuple(x) == PyTuple(x.v)

\* dict: the sequence of its items [k, v], keys distinct, in insertion order
DictKeys(d) == {d[i].k : i \in 1..Len(d)}

\* d.get(key): the value under key, None when the key is missing
DictGet(d, key) ==
    IF \E i \in 1..Len(d) : d[i].k = key
    THEN d[CHOOSE i \in 1..Len(d) : d[i].k = key].v
    ELSE PyNone

\* d[key] = value: replaces in place, or appends a new item
DictSet(d, key, value) ==
    IF \E i \in 1..Len(d) : d[i].k = key
    THEN [i \in 1..Len(d) |-> IF d[i].k = key THEN [k |-> key, v |-> value] ELSE d[i]]
    ELSE Append(d, [k |-> key, v |-> value])

\* sep.join(ss)
RECURSIVE join(_, _)
join(sep, ss) ==
    IF ss = <<>> THEN ""
    ELSE IF Len(ss) = 1 THEN ss[1]
    ELSE ss[1] \o sep \o join(sep, Tail(ss))

-----------------------------------------------------------------------------
(* SQL generation: services/api.py *)

\* conditions left over from the call before
StaleConditions == conditions

\* conditions = []
NewConditions == <<>>

\* params = {}
NewParams == <<>>

\* filters[key]
DictItem(d, key) == d[CHOOSE i \in 1..Len(d) : d[i].k = key].v

\* a block that writes the value into the predicate text, after the placeholder
IfActive_inlined(acc, test, text, name, value) ==
    IF Truthy(test)
    THEN [conditions |-> Append(acc.conditions,
                                text \o " /* " \o (IF value.type = "str" THEN value.v
                                                   ELSE value.v[1]) \o " */"),
          params |-> DictSet(acc.params, name, value)]
    ELSE acc

\* One "if filters.get(name): conditions.append(text); params[name] = value"
\* block, acting on the accumulators acc = [conditions, params]
IfActive(acc, test, text, name, value) ==
    IF Truthy(test)
    THEN [conditions |-> Append(acc.conditions, text),
          params |-> DictSet(acc.params, name, value)]
    ELSE acc

\* where_clause = " AND ".join(conditions), without the "1=1" default
WhereOf_no_default(conds) == join(" AND ", conds)

\* where_clause = " AND ".join(conditions) if conditions else "1=1"
WhereOf(conds) ==
    IF conds # <<>> THEN join(" AND ", conds) ELSE "1=1"

\* the date_to block indented under the date_from block
_build_sales_where_clause_nested(f) ==
    LET a0 == [conditions |-> NewConditions, params |-> NewParams]
        a1 == IfActive(a0, DictGet(f, "date_from"), "order_date >= :date_from",
                       "date_from", DictItem(f, "date_from"))
        a2 == IF Truthy(DictGet(f, "date_from"))
              THEN IfActive(a1, DictGet(f, "date_to"), "order_date <= :date_to",
                            "date_to", DictItem(f, "date_to"))
              ELSE a1
        a3 == IfActive(a2, DictGet(f, "regions"), "region IN :regions",
                       "regions", tuple(DictItem(f, "regions")))
        a4 == IfActive(a3, DictGet(f, "product_categories"),
                       "product_category IN :product_categories",
                       "product_categories", tuple(DictItem(f, "product_categories")))
        a5 == IfActive(a4, DictGet(f, "channels"), "channel IN :channels",
                       "channels", tuple(DictItem(f, "channels")))
    IN  [conditions |-> a5.conditions, where_clause |-> WhereOf(a5.conditions),
         params |-> a5.params]

\* the date_to block placed before the date_from block
_build_sales_where_clause_swapped(f) ==
    LET a0 == [conditions |-> NewConditions, params |-> NewParams]
        a1 == IfActive(a0, DictGet(f, "date_to"), "order_date <= :date_to",
                       "date_to", DictItem(f, "date_to"))
        a2 == IfActive(a1, DictGet(f, "date_from"), "order_date >= :date_from",
                       "date_from", DictItem(f, "date_from"))
        a3 == IfActive(a2, DictGet(f, "regions"), "region IN :regions",
                       "regions", tuple(DictItem(f, "regions")))
        a4 == IfActive(a3, DictGet(f, "product_categories"),
                       "product_category IN :product_categories",
                       "product_categories", tuple(DictItem(f, "product_categories")))
        a5 == IfActive(a4, DictGet(f, "channels"), "channel IN :channels",
                       "channels", tuple(DictItem(f, "channels")))
    IN  [conditions |-> a5.conditions, where_clause |-> WhereOf(a5.conditions),
         params |-> a5.params]

_build_sales_where_clause(f) ==
    LET a0 == [conditions |-> NewConditions, params |-> NewParams]
        a1 == IfActive(a0, DictGet(f, "date_from"), "order_date >= :date_from",
                       "date_from", DictItem(f, "date_from"))
        a2 == IfActive(a1, DictGet(f, "date_to"), "order_date <= :date_to",
                       "date_to", DictItem(f, "date_to"))
        a3 == IfActive(a2, DictGet(f, "regions"), "region IN :regions",
                       "regions", tuple(DictItem(f, "regions")))
        a4 == IfActive(a3, DictGet(f, "product_categories"),
                       "product_category IN :product_categories",
                       "product_categories", tuple(DictItem(f, "product_categories")))
        a5 == IfActive(a4, DictGet(f, "channels"), "channel IN :channels",
                       "channels", tuple(DictItem(f, "channels")))
    IN  [conditions |-> a5.conditions, where_clause |-> WhereOf(a5.conditions),
         params |-> a5.params]

_build_procurement_where_clause(f) ==
    LET a0 == [conditions |-> NewConditions, params |-> NewParams]
        a1 == IfActive(a0, DictGet(f, "date_from"), "purchase_date >= :date_from",
                       "date_from", DictItem(f, "date_from"))
        a2 == IfActive(a1, DictGet(f, "date_to"), "purchase_date <= :date_to",
                       "date_to", DictItem(f, "date_to"))
        a3 == IfActive(a2, DictGet(f, "suppliers"), "supplier IN :suppliers",
                       "suppliers", tuple(DictItem(f, "suppliers")))
        a4 == IfActive(a3, DictGet(f, "material_groups"),
                       "material_group IN :material_groups",
                       "material_groups", tuple(DictItem(f, "material_groups")))
        a5 == IfActive(a4, DictGet(f, "plants"), "plant IN :plants",
                       "plants", tuple(DictItem(f, "plants")))
    IN  [conditions |-> a5.conditions, where_clause |-> WhereOf(a5.conditions),
         params |-> a5.params]

_build_finance_where_clause(f) ==
    LET a0 == [conditions |-> NewConditions, params |-> NewParams]
        a1 == IfActive(a0, DictGet(f, "period_from"), "posting_period >= :period_from",
                       "period_from", DictItem(f, "period_from"))
        a2 == IfActive(a1, DictGet(f, "period_to"), "posting_period <= :period_to",
                       "period_to", DictItem(f, "period_to"))
        a3 == IfActive(a2, DictGet(f, "company_codes"), "company_code IN :company_codes",
                       "company_codes", tuple(DictItem(f, "company_codes")))
        a4 == IfActive(a3, DictGet(f, "cost_centers"), "cost_center IN :cost_centers",
                       "cost_centers", tuple(DictItem(f, "cost_centers")))
        a5 == IfActive(a4, DictGet(f, "accounts"), "account IN :accounts",
                       "accounts", tuple(DictItem(f, "accounts")))
    IN  [conditions |-> a5.conditions, where_clause |-> WhereOf(a5.conditions),
         params |-> a5.params]

\* the builder each _execute_*_run calls for its domain
BuildWhere(d, f) ==
    CASE d = "sales" -> _build_sales_where_clause(f)
      [] d = "procurement" -> _build_procurement_where_clause(f)
      [] d = "finance" -> _build_finance_where_clause(f)

-----------------------------------------------------------------------------
(* The filter contracts: models/run.py, and the column tables of api.py *)

Domains == {"sales", "procurement", "finance"}

\* the declared fields of each domain's filter contract, in declaration order
FilterFields(d) ==
    CASE d = "sales" ->
           <<"date_from", "date_to", "regions", "product_categories", "channels">>
      [] d = "procurement" ->
           <<"date_from", "date_to", "suppliers", "material_groups", "plants">>
      [] d = "finance" ->
           <<"period_from", "period_to", "company_codes", "cost_centers", "accounts">>

FieldSet(d) == {FilterFields(d)[i] : i \in 1..Len(FilterFields(d))}

\* the fact-table column each filter field constrains
FilterColumn(d, field) ==
    CASE d = "sales" ->
           (CASE field \in {"date_from", "date_to"} -> "order_date"
              [] field = "regions" -> "region"
              [] field = "product_categories" -> "product_category"
              [] field = "channels" -> "channel")
      [] d = "procurement" ->
           (CASE field \in {"date_from", "date_to"} -> "purchase_date"
              [] field = "suppliers" -> "supplier"
              [] field = "material_groups" -> "material_group"
              [] field = "plants" -> "plant")
      [] d = "finance" ->
           (CASE field \in {"period_from", "period_to"} -> "posting_period"
              [] field = "company_codes" -> "company_code"
              [] field = "cost_centers" -> "cost_center"
              [] field = "accounts" -> "account")

\* the values a multi-select offers: the distinct values of the column
FilterOptions(field) ==
    CASE field = "regions" -> <<"DACH", "Nordics", "UK", "France">>
      [] field = "product_categories" -> <<"Electronics", "Clothing", "Home", "Sports">>
      [] field = "channels" -> <<"Online", "Retail", "Wholesale">>
      [] field = "suppliers" -> <<"Supplier A", "Supplier B", "Supplier C", "Supplier D">>
      [] field = "material_groups" -> <<"Raw Materials", "Components", "Services", "Equipment">>
      [] field = "plants" -> <<"Plant 100", "Plant 200", "Plant 300">>
      [] field = "company_codes" -> <<"1000", "2000">>
      [] field = "cost_centers" -> <<"CC100", "CC200", "CC300", "CC400">>
      [] field = "accounts" -> <<"4000", "4010", "4100", "5000", "5100", "5200">>

-----------------------------------------------------------------------------
(* The filter mappings the generator is applied to *)

Min(a, b) == IF a <= b THEN a ELSE b

\* sequences over S of length at most n
RECURSIVE SeqsUpTo(_, _)
SeqsUpTo(S, n) ==
    IF n = 0 THEN {<<>>}
    ELSE LET P == SeqsUpTo(S, n - 1)
         IN  P \cup {Append(q, x) : q \in P, x \in S}

NoDuplicates(q) == \A a, b \in 1..Len(q) : a # b => q[a] # q[b]

\* the values the page can put under a field: a bound is None or an ISO
\* string, a multi-select is the list of the chosen options in choice order
FieldValues(d, field) ==
    LET i == CHOOSE j \in 1..5 : FilterFields(d)[j] = field
        opts == FilterOptions(field)
    IN  CASE i = 1 -> {PyNone, PyStr(IF d = "finance" THEN "2025-01" ELSE "2025-01-01")}
          [] i = 2 -> {PyNone, PyStr(IF d = "finance" THEN "2025-12" ELSE "2025-01-31")}
          [] i = 3 -> {PyList(q) : q \in {r \in SeqsUpTo({opts[j] : j \in 1..Min(MaxSel, Len(opts))}, MaxSel) :
                                            NoDuplicates(r)}}
          [] OTHER -> {PyList(<<>>), PyList(<<opts[1]>>)}

\* every dict with key set K, in every insertion order
RECURSIVE DictsOver(_, _)
DictsOver(d, K) ==
    IF K = {} THEN {<<>>}
    ELSE UNION {{Append(m, [k |-> f, v |-> x]) :
                    m \in DictsOver(d, K \ {f}), x \in FieldValues(d, f)} : f \in K}

FilterMappings(d) == UNION {DictsOver(d, K) : K \in SUBSET FieldSet(d)}

-----------------------------------------------------------------------------
(* Values of the variables an operation has not touched yet *)

NoOp == [name |-> "none", arg |-> "", cleared |-> FALSE]
NoResults == [kind |-> "none"]

StoreIdle == session_state = <<>> /\ op = NoOp /\ ret = NoOp
ExecutorIdle == table = <<>> /\ results = NoResults /\ new_run = PyNone /\ issued = <<>>
GeneratorIdle ==
    conditions = <<>> /\ where_clause = "" /\ params = <<>> /\ calls = 0

-----------------------------------------------------------------------------
(* SpecWhere: the WHERE generator applied to every filter mapping *)

InitWhere ==
    /\ phase = "input"
    /\ domain \in Domains
    /\ filters \in FilterMappings(domain)
    /\ GeneratorIdle
    /\ StoreIdle
    /\ ExecutorIdle

\* where_clause, params = _build_<domain>_where_clause(filters)
CallBuildWhere ==
    /\ phase = "input"
    /\ LET out == BuildWhere(domain, filters)
       IN  /\ conditions' = out.conditions
           /\ where_clause' = out.where_clause
           /\ params' = out.params
    /\ calls' = calls + 1
    /\ phase' = "built"
    /\ UNCHANGED <<domain, filters, session_state, op, ret, table, results, new_run, issued>>

NextWhere == CallBuildWhere

SpecWhere == InitWhere /\ [][NextWhere]_vars

-----------------------------------------------------------------------------
(* The Run model: models/run.py *)

\* RunStatus
PENDING == "pending"
RUNNING == "running"
COMPLETED == "completed"
FAILED == "failed"

\* The instants runs are created at: seconds and microseconds within one
\* minute of one day.
Instants ==
    {[sec |-> 9, usec |-> 500000], [sec |-> 10, usec |-> 0], [sec |-> 10, usec |-> 1]}

Earlier(t, u) == t.sec < u.sec \/ (t.sec = u.sec /\ t.usec < u.usec)

\* the decimal digits of n, zero-padded to width w
RECURSIVE Digits(_, _)
Digits(n, w) ==
    IF w = 0 THEN <<>>
    ELSE Append(Digits(n \div 10, w - 1),
                <<"0", "1", "2", "3", "4", "5", "6", "7", "8", "9">>[(n % 10) + 1])

\* datetime.isoformat(): the text of the instant, character by character;
\* the fraction is left out when the microsecond is 0.  Only the seconds part
\* "SS[.ffffff]" is kept: the date, hour and minute before it are the same
\* text in every run of the model.
isoformat(t) ==
    Digits(t.sec, 2) \o (IF t.usec = 0 THEN <<>> ELSE <<".">> \o Digits(t.usec, 6))

\* ord(c) for the characters of a timestamp
ord(c) ==
    CASE c = "." -> 46
      [] c = "0" -> 48 [] c = "1" -> 49 [] c = "2" -> 50 [] c = "3" -> 51
      [] c = "4" -> 52 [] c = "5" -> 53 [] c = "6" -> 54 [] c = "7" -> 55
      [] c = "8" -> 56 [] c = "9" -> 57

\* a < b for Python strings: lexicographic by code point, a proper prefix
\* being smaller
RECURSIVE StrLess(_, _)
StrLess(a, b) ==
    IF b = <<>> THEN FALSE
    ELSE IF a = <<>> THEN TRUE
    ELSE IF ord(Head(a)) # ord(Head(b)) THEN ord(Head(a)) < ord(Head(b))
    ELSE StrLess(Tail(a), Tail(b))

\* a Run object: the attributes the dataclass declares
Run(id, d, executed_at, status) ==
    [id |-> id, domain |-> d, filters |-> <<>>, executed_at |-> executed_at,
     status |-> status, results |-> <<>>, sql_preview |-> ""]

-----------------------------------------------------------------------------
(* The run store: services/state.py *)

BUSINESS_CASES == <<"sales", "procurement", "finance">>
DEFAULT_BUSINESS_CASE == "sales"

\* what a call returns, or the exception it raises
Return(v) == [raised |-> "", value |-> v]
Raise(e) == [raised |-> e]

\* init_state(): sets each key that is missing
init_state(ss) ==
    LET s1 == IF "selected_business_case" \notin DOMAIN ss
              THEN ss @@ ("selected_business_case" :> DEFAULT_BUSINESS_CASE) ELSE ss
        s2 == IF "selected_inputs" \notin DOMAIN s1
              THEN s1 @@ ("selected_inputs" :>
                             [bc \in {BUSINESS_CASES[i] : i \in 1..3} |-> <<>>])
              ELSE s1
    IN  IF "runs" \notin DOMAIN s2 THEN s2 @@ ("runs" :> <<>>) ELSE s2

Reverse(xs) == [i \in 1..Len(xs) |-> xs[Len(xs) + 1 - i]]

\* xs with x inserted after the last element whose key is not greater
RECURSIVE InsertByKey(_, _)
InsertByKey(xs, x) ==
    IF xs = <<>> THEN <<x>>
    ELSE IF StrLess(x.executed_at, Head(xs).executed_at) THEN <<x>> \o xs
    ELSE <<Head(xs)>> \o InsertByKey(Tail(xs), x)

\* a stable ascending sort by executed_at
RECURSIVE SortAscending(_)
SortAscending(xs) ==
    IF xs = <<>> THEN <<>>
    ELSE InsertByKey(SortAscending(SubSeq(xs, 1, Len(xs) - 1)), xs[Len(xs)])

\* sorted(...)[::-1]: ascending, then reversed
sorted_then_reversed(xs) == Reverse(SortAscending(xs))

\* sorted(runs, key=lambda r: r.executed_at, reverse=True): the list is
\* reversed, sorted ascending and stable, and reversed again
sorted_reverse(xs) == Reverse(SortAscending(Reverse(xs)))

\* [r for r in runs if r.business_case == business_case]: reading an
\* attribute the object does not have raises AttributeError
FilterBusinessCase(rs, business_case) ==
    IF \E i \in 1..Len(rs) : "business_case" \notin DOMAIN rs[i]
    THEN Raise("AttributeError")
    ELSE Return(SelectSeq(rs, LAMBDA r : r.business_case = business_case))

\* get_runs(business_case), on the state init_state leaves; "" stands for
\* the default None of the argument
get_runs(ss, business_case) ==
    LET all == init_state(ss)["runs"]
        picked == IF business_case # ""
                  THEN FilterBusinessCase(all, business_case) ELSE Return(all)
    IN  IF picked.raised # "" THEN picked ELSE Return(sorted_reverse(picked.value))

\* get_run_count(business_case)
get_run_count(ss, business_case) ==
    LET got == get_runs(ss, business_case)
    IN  IF got.raised # "" THEN got ELSE Return(Len(got.value))

\* next(r for r in runs if r.id == run_id): raises when no run has the id
get_run_by_id_strict(ss, run_id) ==
    LET all == init_state(ss)["runs"]
    IN  IF \E i \in 1..Len(all) : all[i].id = run_id
        THEN Return(all[CHOOSE i \in 1..Len(all) :
                           /\ all[i].id = run_id
                           /\ \A j \in 1..(i - 1) : all[j].id # run_id])
        ELSE Raise("StopIteration")

\* get_run_by_id(run_id): the first run with that id, else None
get_run_by_id(ss, run_id) ==
    LET all == init_state(ss)["runs"]
    IN  IF \E i \in 1..Len(all) : all[i].id = run_id
        THEN Return(all[CHOOSE i \in 1..Len(all) :
                           /\ all[i].id = run_id
                           /\ \A j \in 1..(i - 1) : all[j].id # run_id])
        ELSE Return(PyNone)

\* add_run(run)
add_run(ss, run) ==
    [init_state(ss) EXCEPT !["runs"] = Append(@, run)]

\* a clear that keeps the runs that are not Completed
clear_runs_completed(ss) ==
    [init_state(ss) EXCEPT
        !["runs"] = SelectSeq(@, LAMBDA r : r.status # COMPLETED)]

\* clear_runs()
clear_runs(ss) ==
    [init_state(ss) EXCEPT !["runs"] = <<>>]

\* get_completed_runs(business_case)
get_completed_runs(ss, business_case) ==
    LET got == get_runs(ss, business_case)
    IN  IF got.raised # "" THEN got
        ELSE Return(SelectSeq(got.value, LAMBDA r : r.status = COMPLETED))

\* a replacement of every stored entry with the id (a loop without return)
ReplaceEvery(all, run) ==
    [i \in 1..Len(all) |-> IF all[i].id = run.id THEN run ELSE all[i]]

\* st.session_state.runs[i] = run, for the first i with runs[i].id == run.id
ReplaceFirst(all, run) ==
    LET i == CHOOSE k \in 1..Len(all) :
                /\ all[k].id = run.id
                /\ \A j \in 1..(k - 1) : all[j].id # run.id
    IN  [all EXCEPT ![i] = run]

\* an update that deletes the stored entry and does not put run in its place
update_run_dropping(ss, run) ==
    [init_state(ss) EXCEPT
        !["runs"] = SelectSeq(@, LAMBDA r : r.id # run.id)]

\* update_run(run): no change when no stored run has the id
update_run(ss, run) ==
    LET all == init_state(ss)["runs"]
    IN  IF \E i \in 1..Len(all) : all[i].id = run.id
        THEN [init_state(ss) EXCEPT !["runs"] = ReplaceFirst(all, run)]
        ELSE init_state(ss)

-----------------------------------------------------------------------------
(* SpecStore: the run store under every sequence of its operations *)

StoredRuns == IF "runs" \in DOMAIN session_state THEN session_state["runs"] ELSE <<>>

StoredIds == {StoredRuns[i].id : i \in 1..Len(StoredRuns)}

\* ids a new Run can carry: a fresh one (uuid4), or, for a Run rebuilt by
\* Run.from_dict, one already stored
FreshId == CHOOSE n \in 1..(MaxRuns + 1) : n \notin StoredIds /\ \A k \in 1..(n - 1) : k \in StoredIds

\* the domains of the runs added; the page stores a run once it is Completed
StoreDomains == {"sales", "finance"}
StoreStatuses == {COMPLETED}

\* the record of a call: its name, its argument (for clear_runs, which has
\* none, the number of runs it dropped), and whether clear_runs was the last
\* call that wrote the run list
Called(name, arg) ==
    [name |-> name, arg |-> arg,
     cleared |-> CASE name = "clear_runs" -> TRUE
                   [] name = "add_run" -> FALSE
                   [] OTHER -> op.cleared]

InitStore ==
    /\ phase = "store"
    /\ session_state = <<>>
    /\ op = NoOp
    /\ ret = NoOp
    /\ domain = DEFAULT_BUSINESS_CASE
    /\ filters = <<>>
    /\ GeneratorIdle
    /\ ExecutorIdle

StoreFrame ==
    UNCHANGED <<phase, domain, filters, conditions, where_clause, params, calls,
                table, results, new_run, issued>>

AddRun ==
    /\ phase = "store"
    /\ Len(StoredRuns) < MaxRuns
    /\ \E id \in StoredIds \cup {FreshId}, d \in StoreDomains, t \in Instants,
          status \in StoreStatuses :
          LET run == Run(id, d, isoformat(t), status)
          IN  /\ session_state' = add_run(session_state, run)
              /\ op' = Called("add_run", run)
    /\ ret' = Return(PyNone)
    /\ StoreFrame

ClearRuns ==
    /\ session_state' = clear_runs(session_state)
    /\ op' = Called("clear_runs", Len(StoredRuns))
    /\ ret' = Return(PyNone)
    /\ StoreFrame

\* a get_runs that sorts the stored list itself (runs.sort(...)) and
\* returns it
GetRuns_sorting_in_place ==
    /\ \E business_case \in {""} \cup StoreDomains :
          /\ ret' = get_runs(session_state, business_case)
          /\ op' = Called("get_runs", business_case)
    /\ session_state' = [init_state(session_state) EXCEPT !["runs"] = sorted_reverse(@)]
    /\ StoreFrame

GetRuns ==
    /\ \E business_case \in {""} \cup StoreDomains :
          /\ ret' = get_runs(session_state, business_case)
          /\ op' = Called("get_runs", business_case)
    /\ session_state' = init_state(session_state)
    /\ StoreFrame

GetRunCount ==
    /\ \E business_case \in {""} \cup StoreDomains :
          /\ ret' = get_run_count(session_state, business_case)
          /\ op' = Called("get_run_count", business_case)
    /\ session_state' = init_state(session_state)
    /\ StoreFrame

GetRunById ==
    /\ \E run_id \in 1..MaxRuns :
          /\ ret' = get_run_by_id(session_state, run_id)
          /\ op' = Called("get_run_by_id", run_id)
    /\ session_state' = init_state(session_state)
    /\ StoreFrame

NextStore == AddRun \/ ClearRuns \/ GetRuns \/ GetRunCount \/ GetRunById

SpecStore == InitStore /\ [][NextStore]_vars

-----------------------------------------------------------------------------
(* SpecArchive: the run store holding runs of every status, under every     *)
(* sequence of its operations, update_run and get_completed_runs included   *)

RunStatuses == {PENDING, RUNNING, COMPLETED, FAILED}

\* the instants of the archived runs: two instants one microsecond apart
ArchiveInstants == {t \in Instants : t.sec = 10}

\* the runs handed to add_run and update_run
ArchiveRuns ==
    {Run(id, DEFAULT_BUSINESS_CASE, isoformat(t), status) :
        id \in 1..MaxArchived, t \in ArchiveInstants, status \in RunStatuses}

InitArchive ==
    /\ phase = "archive"
    /\ session_state = <<>>
    /\ op = NoOp
    /\ ret = NoOp
    /\ domain = DEFAULT_BUSINESS_CASE
    /\ filters = <<>>
    /\ GeneratorIdle
    /\ ExecutorIdle

ArchiveAddRun ==
    /\ phase = "archive"
    /\ Len(StoredRuns) < MaxArchived
    /\ \E run \in ArchiveRuns :
          /\ run.id \in StoredIds \cup {FreshId}
          /\ session_state' = add_run(session_state, run)
          /\ op' = Called("add_run", run)
    /\ ret' = Return(PyNone)
    /\ StoreFrame

UpdateRun ==
    /\ phase = "archive"
    /\ \E run \in ArchiveRuns :
          /\ session_state' = update_run(session_state, run)
          /\ op' = Called("update_run", run)
    /\ ret' = Return(PyNone)
    /\ StoreFrame

GetCompletedRuns ==
    /\ phase \in {"archive", "page"}
    /\ \E business_case \in {""} \cup StoreDomains :
          /\ ret' = get_completed_runs(session_state, business_case)
          /\ op' = Called("get_completed_runs", business_case)
    /\ session_state' = init_state(session_state)
    /\ StoreFrame

NextArchive ==
    \/ ArchiveAddRun
    \/ UpdateRun
    \/ ClearRuns
    \/ GetRuns
    \/ GetCompletedRuns
    \/ GetRunCount
    \/ GetRunById

SpecArchive == InitArchive /\ [][NextArchive]_vars

-----------------------------------------------------------------------------
(* The database: what PostgreSQL computes for the queries api.py issues.    *)
(* A row is a record from column to value; a column that is NULL in a row   *)
(* is left out of the record.  Money is counted in cents.                   *)

IsNull(row, col) == col \notin DOMAIN row

\* the dates and posting periods of the model, with their year and month;
\* rank orders them as the database orders DATE values and 'YYYY-MM' texts
Calendar ==
    {[text |-> "2025-01-01", month |-> 1, rank |-> 20250101],
     [text |-> "2025-01-15", month |-> 1, rank |-> 20250115],
     [text |-> "2025-01-31", month |-> 1, rank |-> 20250131],
     [text |-> "2025-02-10", month |-> 2, rank |-> 20250210],
     [text |-> "2026-01-20", month |-> 1, rank |-> 20260120],
     [text |-> "2025-01", month |-> 1, rank |-> 20250100],
     [text |-> "2025-02", month |-> 2, rank |-> 20250200],
     [text |-> "2025-12", month |-> 12, rank |-> 20251200],
     [text |-> "2026-01", month |-> 1, rank |-> 20260100]}

Day(text) == CHOOSE c \in Calendar : c.text = text

\* a bind value as the database receives it
Bound(prm, name) == DictGet(prm, name).v

\* one predicate of a WHERE fragment, "column operator :name", on a row;
\* a comparison with NULL is not true
PredicateHolds(pred, prm, row) ==
    /\ ~IsNull(row, pred.column)
    /\ CASE pred.operator = ">=" ->
              Day(row[pred.column]).rank >= Day(Bound(prm, pred.name)).rank
         [] pred.operator = "<=" ->
              Day(row[pred.column]).rank <= Day(Bound(prm, pred.name)).rank
         [] pred.operator = "IN" ->
              \E i \in 1..Len(Bound(prm, pred.name)) :
                 Bound(prm, pred.name)[i] = row[pred.column]

\* the predicates the database can read in a fragment of domain d
SqlPredicates(d) ==
    {[column |-> FilterColumn(d, FilterFields(d)[i]),
      operator |-> (CASE i = 1 -> ">=" [] i = 2 -> "<=" [] OTHER -> "IN"),
      name |-> FilterFields(d)[i]] : i \in 1..5}

SqlText(pred) == pred.column \o " " \o pred.operator \o " :" \o pred.name

\* the rows a fragment selects: "1=1" selects all, otherwise the fragment is
\* the conjunction of the predicates whose texts it joins with AND
RowsWhere(d, rows, conds, fragment, prm) ==
    IF fragment = "1=1" THEN rows
    ELSE SelectSeq(rows, LAMBDA row :
            \A i \in 1..Len(conds) :
               PredicateHolds(CHOOSE q \in SqlPredicates(d) : SqlText(q) = conds[i],
                              prm, row))

\* COUNT(*)
CountAll(rows) == Len(rows)

\* COUNT(col): the rows where col is not NULL
Count(rows, col) == Len(SelectSeq(rows, LAMBDA row : ~IsNull(row, col)))

\* COUNT(DISTINCT col)
CountDistinct(rows, col) ==
    Cardinality({rows[i][col] : i \in {j \in 1..Len(rows) : ~IsNull(rows[j], col)}})

\* the sum of a sequence of numbers
RECURSIVE Total(_)
Total(xs) == IF xs = <<>> THEN 0 ELSE Head(xs) + Total(Tail(xs))

\* the non-NULL values of a column
Values(rows, col) ==
    LET kept == SelectSeq(rows, LAMBDA row : ~IsNull(row, col))
    IN  [i \in 1..Len(kept) |-> kept[i][col]]

Abs(n) == IF n < 0 THEN -n ELSE n

\* n / d rounded to the nearest integer, halves to the even one (d > 0)
RoundDiv(n, d) ==
    LET q == n \div d
        r == n - q * d
    IN  IF 2 * r < d THEN q
        ELSE IF 2 * r > d THEN q + 1
        ELSE IF q % 2 = 0 THEN q ELSE q + 1

\* COALESCE(SUM(col), 0), in cents
SumOrZero(rows, col) == Total(Values(rows, col))

\* COALESCE(AVG(col), 0), in cents
AvgOrZero(rows, col) ==
    IF Values(rows, col) = <<>> THEN 0
    ELSE RoundDiv(Total(Values(rows, col)), Len(Values(rows, col)))

\* the distinct values of a column in first-appearance order
RECURSIVE DistinctValues(_, _)
DistinctValues(rows, col) ==
    IF rows = <<>> THEN <<>>
    ELSE LET before == DistinctValues(SubSeq(rows, 1, Len(rows) - 1), col)
             v == rows[Len(rows)][col]
         IN  IF \E i \in 1..Len(before) : before[i] = v THEN before
             ELSE Append(before, v)

\* xs with x inserted before the first element with a larger sort key
RECURSIVE InsertBySort(_, _)
InsertBySort(xs, x) ==
    IF xs = <<>> THEN <<x>>
    ELSE IF x.sort < Head(xs).sort THEN <<x>> \o xs
    ELSE <<Head(xs)>> \o InsertBySort(Tail(xs), x)

\* ORDER BY sort (ascending); rows with equal keys keep the order given
RECURSIVE OrderBy(_)
OrderBy(xs) ==
    IF xs = <<>> THEN <<>>
    ELSE InsertBySort(OrderBy(SubSeq(xs, 1, Len(xs) - 1)), xs[Len(xs)])

\* LIMIT n
Limit(xs, n) == SubSeq(xs, 1, Min(n, Len(xs)))

-----------------------------------------------------------------------------
(* Run execution: services/api.py.  Decimal and float amounts are integers  *)
(* in cents; a percentage rounded to one decimal is an integer in tenths.   *)

\* int(x) of a Decimal amount: truncation toward zero, to whole units
int(cents) == IF cents >= 0 THEN cents \div 100 ELSE -((-cents) \div 100)

\* round(n / d * 100, 1), in tenths of a percent; dividing by zero raises
Percent(n, d) ==
    IF d = 0 THEN Raise("ZeroDivisionError") ELSE Return(RoundDiv(n * 1000, d))

\* the ratio computed whatever the denominator
Unguarded(denominator) == TRUE

\* "... if denominator > 0 else 0.0"
Guarded(denominator) == denominator > 0

Ratio(n, d) == IF Guarded(d) THEN Percent(n, d) ELSE Return(0)

\* the GROUP BY dimension, the summed column and the LIMIT of the breakdown
\* query of each domain; the finance query sums ABS(amount)
BREAKDOWN_LIMIT == 10

\* the breakdown query without its ORDER BY
BreakdownQuery_unordered(d) ==
    CASE d = "sales" ->
           [dimension |-> "region", measure |-> "revenue", abs |-> FALSE,
            order |-> "", limit |-> BREAKDOWN_LIMIT]
      [] d = "procurement" ->
           [dimension |-> "material_group", measure |-> "spend", abs |-> FALSE,
            order |-> "", limit |-> BREAKDOWN_LIMIT]
      [] d = "finance" ->
           [dimension |-> "cost_center", measure |-> "amount", abs |-> TRUE,
            order |-> "", limit |-> BREAKDOWN_LIMIT]

BreakdownQuery(d) ==
    CASE d = "sales" ->
           [dimension |-> "region", measure |-> "revenue", abs |-> FALSE,
            order |-> "value DESC", limit |-> BREAKDOWN_LIMIT]
      [] d = "procurement" ->
           [dimension |-> "material_group", measure |-> "spend", abs |-> FALSE,
            order |-> "value DESC", limit |-> BREAKDOWN_LIMIT]
      [] d = "finance" ->
           [dimension |-> "cost_center", measure |-> "amount", abs |-> TRUE,
            order |-> "value DESC", limit |-> BREAKDOWN_LIMIT]

\* the rows the database returns for a breakdown query: one per group, with
\* COALESCE(SUM(measure), 0) as value.  Groups of equal value come in an
\* order the database is free to choose: newest_first picks between the two
\* the model offers.
BreakdownRows(q, rows, newest_first) ==
    LET seen == DistinctValues(rows, q.dimension)
        keys == IF newest_first THEN Reverse(seen) ELSE seen
        group(g) == SelectSeq(rows, LAMBDA row : row[q.dimension] = g)
        amounts(g) == IF q.abs
                      THEN [i \in 1..Len(Values(group(g), q.measure)) |->
                               Abs(Values(group(g), q.measure)[i])]
                      ELSE Values(group(g), q.measure)
        out == [i \in 1..Len(keys) |->
                   [label |-> keys[i], value |-> Total(amounts(keys[i])),
                    sort |-> -Total(amounts(keys[i]))]]
    IN  Limit(IF q.order = "value DESC" THEN OrderBy(out) ELSE out, q.limit)

\* a breakdown that shows one placeholder bar when the query returns no row
Breakdown_padded(q, breakdown_rows) ==
    [dimension |-> q.dimension,
     labels |-> IF breakdown_rows = <<>> THEN <<"(none)">>
                ELSE [i \in 1..Len(breakdown_rows) |-> breakdown_rows[i].label],
     values |-> IF breakdown_rows = <<>> THEN <<0>>
                ELSE [i \in 1..Len(breakdown_rows) |-> int(breakdown_rows[i].value)]]

\* breakdown = {"dimension": ..., "labels": [...], "values": [int(...) ...]}
Breakdown(q, breakdown_rows) ==
    [dimension |-> q.dimension,
     labels |-> [i \in 1..Len(breakdown_rows) |-> breakdown_rows[i].label],
     values |-> [i \in 1..Len(breakdown_rows) |-> int(breakdown_rows[i].value)]]

\* TO_CHAR(date, 'Mon') and the month_abbrevs table
MonthAbbrev(m) ==
    <<"Jan", "Feb", "Mar", "Apr", "May", "Jun",
      "Jul", "Aug", "Sep", "Oct", "Nov", "Dec">>[m]

\* the rows of the sales and procurement trend queries: GROUP BY the month
\* of the date column, ORDER BY month_num
MonthlyRows(rows, date_col, measure) ==
    LET months == {Day(rows[i][date_col]).month : i \in 1..Len(rows)}
        group(m) == SelectSeq(rows, LAMBDA row : Day(row[date_col]).month = m)
        ordered == OrderBy([i \in 1..12 |-> [sort |-> i]])
        present == SelectSeq(ordered, LAMBDA o : o.sort \in months)
    IN  [i \in 1..Len(present) |->
            [month |-> MonthAbbrev(present[i].sort), month_num |-> present[i].sort,
             amount |-> SumOrZero(group(present[i].sort), measure),
             orders |-> CountAll(group(present[i].sort))]]

\* the rows of the finance trend query: GROUP BY posting_period, ORDER BY it
PeriodRows(rows) ==
    LET seen == DistinctValues(rows, "posting_period")
        keyed == OrderBy([i \in 1..Len(seen) |->
                            [period |-> seen[i], sort |-> Day(seen[i]).rank]])
        group(p) == SelectSeq(rows, LAMBDA row : row["posting_period"] = p)
        of_type(p, t) == SelectSeq(group(p), LAMBDA row : row["account_type"] = t)
    IN  [i \in 1..Len(keyed) |->
            [posting_period |-> keyed[i].period,
             income |-> SumOrZero(of_type(keyed[i].period, "revenue"), "amount"),
             expenses |-> Total([j \in 1..Len(Values(of_type(keyed[i].period, "expense"), "amount")) |->
                                   Abs(Values(of_type(keyed[i].period, "expense"), "amount")[j])])]]

\* the value a run ends with: the results dict, or the exception raised
Results(kpis, trends, breakdown) ==
    [kind |-> "results", kpis |-> kpis, trends |-> trends, breakdown |-> breakdown]

Failure(e) == [kind |-> "raised", raised |-> e]

Column(xs, col) == [i \in 1..Len(xs) |-> xs[i][col]]

\* a series that leaves out the rows whose value is zero
IntColumn_nonzero(xs, col) ==
    [i \in 1..Len(SelectSeq(xs, LAMBDA x : int(x[col]) # 0)) |->
        int(SelectSeq(xs, LAMBDA x : int(x[col]) # 0)[i][col])]

IntColumn(xs, col) == [i \in 1..Len(xs) |-> int(xs[i][col])]

\* the run's outcome: the ratio of the KPI dict is computed first and may
\* raise; otherwise the three parts make the results dict
Outcome(kpis, ratio, trends, breakdown) ==
    IF kpis[ratio].raised # "" THEN Failure(kpis[ratio].raised)
    ELSE Results([kpis EXCEPT ![ratio] = @.value], trends, breakdown)

\* the rows the run's queries read: those the WHERE fragment w selects
Selection(d, w, rows_all) ==
    RowsWhere(d, rows_all, w.conditions, w.where_clause, w.params)

\* the kpis dict of a sales run, from the KPI query over rows
SalesKpis(rows) ==
    [total_revenue |-> int(SumOrZero(rows, "revenue")),
     total_orders |-> CountAll(rows),
     avg_order_value |-> AvgOrZero(rows, "revenue"),
     conversion_rate |-> Ratio(CountAll(rows), CountDistinct(rows, "visitor_id"))]

SalesTrends(trend_rows) ==
    [months |-> Column(trend_rows, "month"),
     revenue |-> IntColumn(trend_rows, "amount"),
     orders |-> Column(trend_rows, "orders")]

SalesResults(rows, newest_first) ==
    Outcome(SalesKpis(rows), "conversion_rate",
            SalesTrends(MonthlyRows(rows, "order_date", "revenue")),
            Breakdown(BreakdownQuery("sales"),
                      BreakdownRows(BreakdownQuery("sales"), rows, newest_first)))

SalesRun(w, rows_all, newest_first) ==
    [where |-> w, results |-> SalesResults(Selection("sales", w, rows_all), newest_first)]

\* _execute_sales_run(filters) against the fact table rows_all
_execute_sales_run(f, rows_all, newest_first) ==
    SalesRun(_build_sales_where_clause(f), rows_all, newest_first)

\* COUNT(CASE WHEN actual_delivery_date <= requested_delivery_date THEN 1 END)
OnTimeCount(rows) ==
    Len(SelectSeq(rows, LAMBDA row :
           /\ ~IsNull(row, "actual_delivery_date")
           /\ ~IsNull(row, "requested_delivery_date")
           /\ Day(row["actual_delivery_date"]).rank
                 <= Day(row["requested_delivery_date"]).rank))

\* COUNT(CASE WHEN both delivery dates IS NOT NULL THEN 1 END)
DeliveryCount(rows) ==
    Len(SelectSeq(rows, LAMBDA row :
           /\ ~IsNull(row, "actual_delivery_date")
           /\ ~IsNull(row, "requested_delivery_date")))

\* the kpis dict of a procurement run
ProcurementKpis(rows) ==
    [total_spend |-> int(SumOrZero(rows, "spend")),
     purchase_orders |-> CountAll(rows),
     avg_po_value |-> AvgOrZero(rows, "spend"),
     on_time_delivery |-> Ratio(OnTimeCount(rows), DeliveryCount(rows))]

ProcurementTrends(trend_rows) ==
    [months |-> Column(trend_rows, "month"),
     spend |-> IntColumn(trend_rows, "amount"),
     orders |-> Column(trend_rows, "orders")]

ProcurementResults(rows, newest_first) ==
    Outcome(ProcurementKpis(rows), "on_time_delivery",
            ProcurementTrends(MonthlyRows(rows, "purchase_date", "spend")),
            Breakdown(BreakdownQuery("procurement"),
                      BreakdownRows(BreakdownQuery("procurement"), rows, newest_first)))

ProcurementRun(w, rows_all, newest_first) ==
    [where |-> w,
     results |-> ProcurementResults(Selection("procurement", w, rows_all), newest_first)]

\* _execute_procurement_run(filters) against the fact table rows_all
_execute_procurement_run(f, rows_all, newest_first) ==
    ProcurementRun(_build_procurement_where_clause(f), rows_all, newest_first)

\* SUM(CASE WHEN account_type = 'revenue' THEN amount ELSE 0 END)
TotalIncome(rows) ==
    SumOrZero(SelectSeq(rows, LAMBDA row : row["account_type"] = "revenue"), "amount")

\* the absolute values of a sequence of amounts
AbsAll(amounts) == [i \in 1..Len(amounts) |-> Abs(amounts[i])]

\* SUM(CASE WHEN account_type = 'expense' THEN ABS(amount) ELSE 0 END)
TotalExpenses(rows) ==
    Total(AbsAll(Values(SelectSeq(rows, LAMBDA row : row["account_type"] = "expense"),
                        "amount")))

\* the kpis dict of a finance run
FinanceKpis(rows) ==
    [net_income |-> int(SumOrZero(rows, "amount")),
     operating_margin |-> Ratio(TotalIncome(rows) - TotalExpenses(rows), TotalIncome(rows)),
     total_expenses |-> int(TotalExpenses(rows)),
     posting_count |-> CountAll(rows)]

\* months: month_abbrevs[period[5:7]] of each posting period
FinanceTrends(trend_rows) ==
    [months |-> [i \in 1..Len(trend_rows) |->
                    MonthAbbrev(Day(trend_rows[i].posting_period).month)],
     income |-> IntColumn(trend_rows, "income"),
     expenses |-> IntColumn(trend_rows, "expenses")]

FinanceResults(rows, newest_first) ==
    Outcome(FinanceKpis(rows), "operating_margin",
            FinanceTrends(PeriodRows(rows)),
            Breakdown(BreakdownQuery("finance"),
                      BreakdownRows(BreakdownQuery("finance"), rows, newest_first)))

FinanceRun(w, rows_all, newest_first) ==
    [where |-> w, results |-> FinanceResults(Selection("finance", w, rows_all), newest_first)]

\* _execute_finance_run(filters) against the fact table rows_all
_execute_finance_run(f, rows_all, newest_first) ==
    FinanceRun(_build_finance_where_clause(f), rows_all, newest_first)

\* ", ".join(f"'{x}'" for x in xs)
Quoted(xs) == join(", ", [i \in 1..Len(xs) |-> "'" \o xs[i] \o "'"])

\* the where_clauses list of _generate_<domain>_sql: the filter values are
\* written into the text as literals
\* preview clauses for every field whose key holds anything but None, an
\* empty selection included
PreviewClauses_keyed(d, f, n) ==
    [j \in 1..Len(SelectSeq([i \in 1..n |-> i],
                            LAMBDA i : DictGet(f, FilterFields(d)[i]).type # "NoneType")) |->
        FilterColumn(d, FilterFields(d)[SelectSeq([i \in 1..n |-> i],
                            LAMBDA i : DictGet(f, FilterFields(d)[i]).type # "NoneType")[j]])
        \o " IN (...)"]

RECURSIVE PreviewClauses(_, _, _)
PreviewClauses(d, f, n) ==
    IF n = 0 THEN <<>>
    ELSE LET before == PreviewClauses(d, f, n - 1)
             name == FilterFields(d)[n]
             col == FilterColumn(d, name)
         IN  IF ~Truthy(DictGet(f, name)) THEN before
             ELSE Append(before,
                    CASE n = 1 -> col \o " >= '" \o DictItem(f, name).v \o "'"
                      [] n = 2 -> col \o " <= '" \o DictItem(f, name).v \o "'"
                      [] OTHER -> col \o " IN (" \o Quoted(DictItem(f, name).v) \o ")")

\* the SELECT list and table of each preview
PreviewSelect(d) ==
    CASE d = "sales" ->
           "SELECT SUM(revenue) as total_revenue, COUNT(*) as total_orders, "
           \o "AVG(revenue) as avg_order_value, "
           \o "COUNT(DISTINCT visitor_id) as unique_visitors "
           \o "FROM mart.sales_orders_fact"
      [] d = "procurement" ->
           "SELECT SUM(spend) as total_spend, COUNT(*) as purchase_orders, "
           \o "AVG(spend) as avg_po_value, "
           \o "COUNT(DISTINCT supplier) as unique_suppliers "
           \o "FROM mart.procurement_orders_fact"
      [] d = "finance" ->
           "SELECT SUM(CASE WHEN amount > 0 THEN amount ELSE 0 END) as total_income, "
           \o "SUM(CASE WHEN amount < 0 THEN ABS(amount) ELSE 0 END) as total_expenses, "
           \o "SUM(amount) as net_income, COUNT(*) as posting_count "
           \o "FROM mart.gl_postings_fact"

\* a preview that leaves the WHERE keyword out when no filter is active
generate_sql_preview_bare(d, f) ==
    IF d \notin Domains THEN "-- Unknown domain"
    ELSE IF PreviewClauses(d, f, 5) = <<>> THEN PreviewSelect(d)
    ELSE PreviewSelect(d) \o " WHERE " \o WhereOf(PreviewClauses(d, f, 5))

generate_sql_preview(d, f) ==
    IF d \in Domains
    THEN PreviewSelect(d) \o " WHERE " \o WhereOf(PreviewClauses(d, f, 5))
    ELSE "-- Unknown domain"

\* execute_run(domain, filters): the preview, then the run of the domain
execute_run(d, f, rows_all, newest_first) ==
    [sql_preview |-> generate_sql_preview(d, f)]
       @@ (CASE d = "sales" -> _execute_sales_run(f, rows_all, newest_first)
             [] d = "procurement" -> _execute_procurement_run(f, rows_all, newest_first)
             [] d = "finance" -> _execute_finance_run(f, rows_all, newest_first)
             [] OTHER -> [results |-> [kind |-> "empty"]])

-----------------------------------------------------------------------------
(* The fact tables the runs are executed against *)

\* a row of mart.sales_orders_fact; visitor "" stands for a NULL visitor_id
SalesRow(date, region, revenue, visitor) ==
    LET row == [order_date |-> date, region |-> region,
                product_category |-> "Electronics", channel |-> "Online",
                revenue |-> revenue]
    IN  IF visitor = "" THEN row ELSE row @@ [visitor_id |-> visitor]

\* a row of mart.procurement_orders_fact; actual "" stands for a delivery
\* not made yet (NULL actual_delivery_date)
ProcurementRow(date, material_group, spend, requested, actual) ==
    LET row == [purchase_date |-> date, supplier |-> "Supplier A",
                material_group |-> material_group, plant |-> "Plant 100",
                spend |-> spend, requested_delivery_date |-> requested]
    IN  IF actual = "" THEN row ELSE row @@ [actual_delivery_date |-> actual]

\* a row of mart.gl_postings_fact
FinanceRow(period, cost_center, account_type, amount) ==
    [posting_period |-> period, company_code |-> "1000", cost_center |-> cost_center,
     account |-> (IF account_type = "expense" THEN "5000" ELSE "4000"),
     account_type |-> account_type, amount |-> amount]

\* the rows the small tables are made of
TableRows(d) ==
    CASE d = "sales" ->
           <<SalesRow("2025-01-15", "DACH", 12050, "v1"),
             SalesRow("2025-02-10", "Nordics", 8099, "v1"),
             SalesRow("2025-01-31", "DACH", -150, "v2"),
             SalesRow("2026-01-20", "UK", 8099, ""),
             SalesRow("2025-01-01", "UK", 0, "v3")>>
      [] d = "procurement" ->
           <<ProcurementRow("2025-01-15", "Raw Materials", 50000, "2025-01-31", "2025-01-31"),
             ProcurementRow("2025-02-10", "Components", 12345, "2025-01-31", "2025-02-10"),
             ProcurementRow("2025-01-01", "Raw Materials", 999, "2025-01-15", ""),
             ProcurementRow("2026-01-20", "Services", 12345, "2026-01-20", "2025-01-15")>>
      [] d = "finance" ->
           <<FinanceRow("2025-01", "CC100", "revenue", 10000),
             FinanceRow("2025-01", "CC200", "expense", -10000),
             FinanceRow("2025-02", "CC100", "expense", -2550),
             FinanceRow("2026-01", "CC300", "revenue", -500),
             FinanceRow("2025-12", "CC200", "REVENUE", 7000)>>

\* the tables of at most MaxRows of these rows, in table order
SmallTables(d) ==
    LET picks == {q \in SeqsUpTo(1..Len(TableRows(d)), MaxRows) :
                     \A i \in 1..(Len(q) - 1) : q[i] <= q[i + 1]}
    IN  {[i \in 1..Len(q) |-> TableRows(d)[q[i]]] : q \in picks}

\* the amount of the i-th group of a wide table, in cents: unsorted, with
\* equal amounts and with amounts that differ only in the cents
WideAmount(i) == ((i * 7) % 5) * 150 + 99 - (i % 2) * 50

\* a table of k rows with k different values of the breakdown dimension
WideTable(d, k) ==
    [i \in 1..k |->
        CASE d = "sales" ->
               SalesRow("2025-01-15", "Region " \o ToString(i), WideAmount(i), "v1")
          [] d = "procurement" ->
               ProcurementRow("2025-01-15", "Group " \o ToString(i), WideAmount(i),
                              "2025-01-31", "2025-01-31")
          [] d = "finance" ->
               FinanceRow("2025-01", "CC" \o ToString(i),
                          IF i % 2 = 0 THEN "revenue" ELSE "expense",
                          IF i % 2 = 0 THEN WideAmount(i) ELSE -WideAmount(i))]

WideTables(d) == {WideTable(d, k) : k \in (BREAKDOWN_LIMIT - 1)..MaxGroups}

Tables(d) == SmallTables(d) \cup WideTables(d)

\* the filter field on the column the breakdown groups by
DimensionField(d) ==
    CHOOSE field \in FieldSet(d) : FilterColumn(d, field) = BreakdownQuery(d).dimension

\* the filter mappings the runs are executed with: none set, both bounds
\* set, one value selected, every widget left empty
RunFilters(d) ==
    {<<>>,
     <<[k |-> FilterFields(d)[1], v |-> PyNone], [k |-> FilterFields(d)[2], v |-> PyNone],
       [k |-> FilterFields(d)[3], v |-> PyList(<<>>)], [k |-> FilterFields(d)[4], v |-> PyList(<<>>)],
       [k |-> FilterFields(d)[5], v |-> PyList(<<>>)]>>,
     <<[k |-> FilterFields(d)[1], v |-> PyStr(IF d = "finance" THEN "2025-01" ELSE "2025-01-01")],
       [k |-> FilterFields(d)[2], v |-> PyStr(IF d = "finance" THEN "2025-12" ELSE "2025-01-31")],
       [k |-> FilterFields(d)[3], v |-> PyList(<<>>)]>>,
     <<[k |-> FilterFields(d)[1], v |-> PyNone],
       [k |-> DimensionField(d), v |-> PyList(<<FilterOptions(DimensionField(d))[1]>>)]>>}

-----------------------------------------------------------------------------
(* SpecRun: a session that executes runs against a fact table, with direct  *)
(* generator calls, previews and clear_runs in between                      *)

InitRun ==
    /\ phase = "run"
    /\ domain \in Domains
    /\ filters \in RunFilters(domain)
    /\ table \in Tables(domain)
    /\ results = NoResults
    /\ new_run = PyNone
    /\ issued = <<>>
    /\ GeneratorIdle
    /\ StoreIdle

\* where_clause, params = _build_<domain>_where_clause(filters)
CallGenerator ==
    /\ phase = "run"
    /\ calls < MaxCalls
    /\ LET out == BuildWhere(domain, filters)
       IN  /\ conditions' = out.conditions
           /\ where_clause' = out.where_clause
           /\ params' = out.params
    /\ calls' = calls + 1
    /\ UNCHANGED <<phase, domain, filters, session_state, op, ret, table, results, new_run, issued>>

\* sql_preview = api.generate_sql_preview(domain, filters)
GenerateSqlPreview ==
    /\ phase = "run"
    /\ ret' = Return(PyStr(generate_sql_preview(domain, filters)))
    /\ UNCHANGED <<phase, domain, filters, conditions, where_clause, params, calls,
                   session_state, op, table, results, new_run, issued>>

\* _execute_with_expanding_params(sql, params): the query as the database
\* receives it, the WHERE fragment inside the text and the bind map beside it
Query(name, fragment, bind) == [query |-> name, where_clause |-> fragment, params |-> bind]

\* the queries of one run of a known domain: KPI, trend, breakdown
Queries(w) ==
    <<Query("kpi", w.where_clause, w.params),
      Query("trend", w.where_clause, w.params),
      Query("breakdown", w.where_clause, w.params)>>

\* the state after execute_run returned out (or raised); an unknown domain
\* reaches no executor: no generator call, no query
Executed(out) ==
    /\ IF "where" \in DOMAIN out
       THEN /\ conditions' = out.where.conditions
            /\ where_clause' = out.where.where_clause
            /\ params' = out.where.params
            /\ calls' = calls + 1
            /\ issued' = Queries(out.where)
       ELSE /\ issued' = <<>>
            /\ UNCHANGED <<conditions, where_clause, params, calls>>
    /\ results' = out.results
    /\ ret' = IF out.results.kind = "raised"
              THEN Raise(out.results.raised)
              ELSE Return(PyStr(out.sql_preview))

\* results, sql_preview = api.execute_run(domain, filters)
ExecuteRun ==
    /\ phase = "run"
    /\ calls < MaxCalls
    /\ \E newest_first \in BOOLEAN :
          Executed(execute_run(domain, filters, table, newest_first))
    /\ UNCHANGED <<phase, domain, filters, session_state, op, table, new_run>>

NextRun == CallGenerator \/ GenerateSqlPreview \/ ExecuteRun \/ ClearRuns

SpecRun == InitRun /\ [][NextRun]_vars

-----------------------------------------------------------------------------
(* The filter factory: FilterSet objects built from raw mappings *)

\* data.get(key, default)
DictGetDefault(d, key, default) == IF key \in DictKeys(d) THEN DictItem(d, key) ELSE default

\* date.fromisoformat(text): the date a 'YYYY-MM-DD' text denotes; any other
\* text, a 'YYYY-MM' period included, is a ValueError
fromisoformat(text) ==
    IF \E c \in Calendar : c.text = text /\ c.rank % 100 # 0
    THEN Return([type |-> "date",
                 year |-> Day(text).rank \div 10000,
                 month |-> Day(text).month,
                 day |-> Day(text).rank % 100])
    ELSE Raise("ValueError")

\* date.fromisoformat(data[name]) if data.get(name) else None
DateField(data, name) ==
    IF ~Truthy(DictGet(data, name)) THEN Return(PyNone)
    ELSE IF DictItem(data, name).type # "str" THEN Raise("TypeError")
    ELSE fromisoformat(DictItem(data, name).v)

\* cls(...): the dataclass instance, its fields in declaration order
FilterSet(cls, d, values) ==
    [class |-> cls,
     fields |-> [i \in 1..5 |-> [k |-> FilterFields(d)[i], v |-> values[i]]]]

\* the three multi-selects of a from_dict: data.get(name, [])
MultiSelects(d, data) ==
    [i \in 1..3 |-> DictGetDefault(data, FilterFields(d)[i + 2], PyList(<<>>))]

\* SalesFilters.from_dict(data): keys other than the five it reads are not
\* looked at
SalesFilters_from_dict(data) ==
    IF DateField(data, "date_from").raised # "" THEN DateField(data, "date_from")
    ELSE IF DateField(data, "date_to").raised # "" THEN DateField(data, "date_to")
    ELSE Return(FilterSet("SalesFilters", "sales",
                          <<DateField(data, "date_from").value,
                            DateField(data, "date_to").value>>
                          \o MultiSelects("sales", data)))

\* ProcurementFilters.from_dict(data)
ProcurementFilters_from_dict(data) ==
    IF DateField(data, "date_from").raised # "" THEN DateField(data, "date_from")
    ELSE IF DateField(data, "date_to").raised # "" THEN DateField(data, "date_to")
    ELSE Return(FilterSet("ProcurementFilters", "procurement",
                          <<DateField(data, "date_from").value,
                            DateField(data, "date_to").value>>
                          \o MultiSelects("procurement", data)))

\* FinanceFilters.from_dict(data): the periods are kept as text
FinanceFilters_from_dict(data) ==
    Return(FilterSet("FinanceFilters", "finance",
                     <<DictGet(data, "period_from"), DictGet(data, "period_to")>>
                     \o MultiSelects("finance", data)))

\* a factory that sends every other tag to the sales contract
create_filters_from_dict_lenient(d, data) ==
    CASE d = "procurement" -> ProcurementFilters_from_dict(data)
      [] d = "finance" -> FinanceFilters_from_dict(data)
      [] OTHER -> SalesFilters_from_dict(data)

\* create_filters_from_dict(domain, data)
create_filters_from_dict(d, data) ==
    CASE d = "sales" -> SalesFilters_from_dict(data)
      [] d = "procurement" -> ProcurementFilters_from_dict(data)
      [] d = "finance" -> FinanceFilters_from_dict(data)
      [] OTHER -> Raise("ValueError")

-----------------------------------------------------------------------------
(* SpecFactory: the factory, the preview and the executor called with any   *)
(* domain tag and any raw mapping                                           *)

\* tags that are not a domain: another department, the empty tag, a domain
\* in another spelling
OtherTags == {"hr", "", "Sales"}

\* the contract a raw mapping was written for
ContractOf(d) == IF d \in Domains THEN d ELSE DEFAULT_BUSINESS_CASE

\* items whose key the contract of d does not declare: a made-up name, a
\* field in the singular, a field of another contract
UndeclaredItems(d) ==
    {[k |-> "bogus", v |-> PyStr("x")],
     [k |-> "region", v |-> PyList(<<"DACH">>)],
     [k |-> IF d = "finance" THEN "date_from" ELSE "period_from", v |-> PyNone]}

\* raw mappings: the page's mappings, the same with an undeclared item in
\* front or at the end, and one whose lower bound is a period
RawMappings(d) ==
    RunFilters(ContractOf(d))
    \cup {<<x>> \o f : f \in RunFilters(ContractOf(d)), x \in UndeclaredItems(ContractOf(d))}
    \cup {Append(f, x) : f \in RunFilters(ContractOf(d)), x \in UndeclaredItems(ContractOf(d))}
    \cup {<<[k |-> FilterFields(ContractOf(d))[1], v |-> PyStr("2025-01")]>>}

\* the fact tables: empty, one row, or every row
FactoryTables(d) ==
    IF d \in Domains
    THEN {<<>>, TableRows(d)} \cup {<<TableRows(d)[i]>> : i \in 1..Len(TableRows(d))}
    ELSE {<<>>}

\* FILTER_COLUMNS.get(domain): the filter names with a distinct-values
\* query, in dict order; None for any other tag
FILTER_COLUMNS(d) ==
    CASE d = "sales" -> <<"regions", "product_categories", "channels">>
      [] d = "procurement" -> <<"suppliers", "material_groups", "plants">>
      [] d = "finance" -> <<"company_codes", "cost_centers", "accounts", "periods">>
      [] OTHER -> <<>>

\* the column of each of these names
OptionColumn(d, name) ==
    IF name = "periods" THEN "posting_period" ELSE FilterColumn(d, name)

\* the texts of the tables in the order ORDER BY gives them (by code point)
Collation ==
    <<"1000", "2025-01", "2025-02", "2025-12", "2026-01", "4000", "5000",
      "CC100", "CC200", "CC300", "Components", "DACH", "Electronics", "Nordics",
      "Online", "Plant 100", "Raw Materials", "Services", "Supplier A", "UK">>

\* SELECT DISTINCT col FROM table WHERE col IS NOT NULL ORDER BY col
DistinctOrdered(rows, col) ==
    SelectSeq(Collation, LAMBDA x : \E i \in 1..Len(rows) : ~IsNull(rows[i], col) /\ rows[i][col] = x)

\* the queries get_filter_options sends: one per name, for a known domain
OptionQueries(d) ==
    [i \in 1..Len(FILTER_COLUMNS(d)) |->
        Query("distinct " \o OptionColumn(d, FILTER_COLUMNS(d)[i]),
              OptionColumn(d, FILTER_COLUMNS(d)[i]) \o " IS NOT NULL", <<>>)]

\* a get_filter_options with one try around the whole loop: the names from
\* the first failing query on get no entry
get_filter_options_one_try(d, rows, failing) ==
    Return(SelectSeq([i \in 1..Len(FILTER_COLUMNS(d)) |->
                         [k |-> FILTER_COLUMNS(d)[i],
                          v |-> PyList(DistinctOrdered(rows, OptionColumn(d, FILTER_COLUMNS(d)[i]))),
                          at |-> i]],
                     LAMBDA e : \A j \in 1..e.at : FILTER_COLUMNS(d)[j] \notin failing))

\* get_filter_options(domain) over the fact table rows, the queries of the
\* names in failing raising: each name gets its list, or [] when its query
\* raised
get_filter_options(d, rows, failing) ==
    Return([i \in 1..Len(FILTER_COLUMNS(d)) |->
              [k |-> FILTER_COLUMNS(d)[i],
               v |-> IF FILTER_COLUMNS(d)[i] \in failing THEN PyList(<<>>)
                     ELSE PyList(DistinctOrdered(rows, OptionColumn(d, FILTER_COLUMNS(d)[i])))]])

InitFactory ==
    /\ phase = "factory"
    /\ domain \in Domains \cup OtherTags
    /\ filters \in RawMappings(domain)
    /\ table \in FactoryTables(domain)
    /\ results = NoResults
    /\ new_run = PyNone
    /\ issued = <<>>
    /\ GeneratorIdle
    /\ StoreIdle

\* filter_obj = create_filters_from_dict(domain, filters)
CreateFilters ==
    /\ phase = "factory"
    /\ op' = Called("create_filters_from_dict", domain)
    /\ ret' = create_filters_from_dict(domain, filters)
    /\ UNCHANGED <<phase, domain, filters, conditions, where_clause, params, calls,
                   session_state, table, results, new_run, issued>>

\* sql_preview = api.generate_sql_preview(domain, filters)
PreviewTag ==
    /\ phase = "factory"
    /\ op' = Called("generate_sql_preview", domain)
    /\ ret' = Return(PyStr(generate_sql_preview(domain, filters)))
    /\ UNCHANGED <<phase, domain, filters, conditions, where_clause, params, calls,
                   session_state, table, results, new_run, issued>>

\* results, sql_preview = api.execute_run(domain, filters)
ExecuteTag ==
    /\ phase = "factory"
    /\ calls < MaxCalls
    /\ op' = Called("execute_run", domain)
    /\ \E newest_first \in BOOLEAN :
          Executed(execute_run(domain, filters, table, newest_first))
    /\ UNCHANGED <<phase, domain, filters, session_state, table, new_run>>

\* filter_options = api.get_filter_options(domain), with any of its queries
\* failing
GetFilterOptions ==
    /\ phase = "factory"
    /\ \E failing \in SUBSET {FILTER_COLUMNS(domain)[i] : i \in 1..Len(FILTER_COLUMNS(domain))} :
          /\ op' = Called("get_filter_options", failing)
          /\ ret' = get_filter_options(domain, table, failing)
    /\ issued' = OptionQueries(domain)
    /\ UNCHANGED <<phase, domain, filters, conditions, where_clause, params, calls,
                   session_state, table, results, new_run>>

NextFactory == CreateFilters \/ PreviewTag \/ ExecuteTag \/ GetFilterOptions

SpecFactory == InitFactory /\ [][NextFactory]_vars

-----------------------------------------------------------------------------
(* Properties of the WHERE generator *)

Built == phase = "built"

\* a bound is present when the mapping holds a string under its name
BoundPresent(f, field) == field \in DictKeys(f) /\ DictGet(f, field).type = "str"

\* a multi-select is non-empty when the mapping holds a non-empty list
Selected(f, field) ==
    field \in DictKeys(f) /\ DictGet(f, field).type = "list" /\ DictGet(f, field).v # <<>>

RangeFields(d) == {FilterFields(d)[1], FilterFields(d)[2]}
MultiFields(d) == {FilterFields(d)[3], FilterFields(d)[4], FilterFields(d)[5]}

Active(d, f, field) ==
    IF field \in RangeFields(d) THEN BoundPresent(f, field) ELSE Selected(f, field)

\* the predicate text the spec prescribes for a field
Predicate(d, field) ==
    CASE field = FilterFields(d)[1] -> FilterColumn(d, field) \o " >= :" \o field
      [] field = FilterFields(d)[2] -> FilterColumn(d, field) \o " <= :" \o field
      [] OTHER -> FilterColumn(d, field) \o " IN :" \o field

Emitted(text) == \E i \in 1..Len(conditions) : conditions[i] = text

\* the predicates of the active fields, in declaration order
RECURSIVE ActivePredicates(_, _, _)
ActivePredicates(d, f, i) ==
    IF i > Len(FilterFields(d)) THEN <<>>
    ELSE (IF Active(d, f, FilterFields(d)[i])
          THEN <<Predicate(d, FilterFields(d)[i])>> ELSE <<>>)
         \o ActivePredicates(d, f, i + 1)

\* C1: with no active field (every bound absent or None, every multi-select
\* empty or missing) the WHERE fragment is exactly "1=1" and the bind map is
\* empty, in each of the three domains.
C1_NoActiveFieldsTautology ==
    (Built /\ \A field \in FieldSet(domain) : ~Active(domain, filters, field))
        => (where_clause = "1=1" /\ params = <<>>)

C1_Witness ==
    /\ Built
    /\ DictKeys(filters) = FieldSet(domain)
    /\ \A field \in FieldSet(domain) : ~Active(domain, filters, field)
    /\ where_clause = "1=1"

\* C2: a multi-select field yields the predicate "column IN :name" iff its
\* selection is non-empty, and then the bind map holds under the field's name
\* a tuple of exactly the selected values in selection order.
C2_MultiSelectBinding ==
    Built =>
        \A field \in MultiFields(domain) :
            /\ Emitted(Predicate(domain, field)) <=> Selected(filters, field)
            /\ field \in DictKeys(params) <=> Selected(filters, field)
            /\ Selected(filters, field) =>
                   DictGet(params, field) = PyTuple(DictGet(filters, field).v)

C2_Witness ==
    /\ Built
    /\ \E field \in MultiFields(domain) :
          /\ Selected(filters, field)
          /\ Len(DictGet(filters, field).v) = 2
          /\ DictGet(params, field) = PyTuple(DictGet(filters, field).v)
          /\ Emitted(Predicate(domain, field))

\* C3: the lower-bound predicate is emitted exactly when the lower bound is
\* present and the upper-bound predicate exactly when the upper bound is
\* present, each independently; an absent bound adds no predicate and no key.
C3_RangeBounds ==
    Built =>
        \A field \in RangeFields(domain) :
            /\ Emitted(Predicate(domain, field)) <=> BoundPresent(filters, field)
            /\ field \in DictKeys(params) <=> BoundPresent(filters, field)
            /\ BoundPresent(filters, field) =>
                   DictGet(params, field) = DictGet(filters, field)

C3_Witness ==
    /\ Built
    /\ ~BoundPresent(filters, FilterFields(domain)[1])
    /\ BoundPresent(filters, FilterFields(domain)[2])
    /\ Emitted(Predicate(domain, FilterFields(domain)[2]))
    /\ ~Emitted(Predicate(domain, FilterFields(domain)[1]))

\* C4: the WHERE fragment is the active fields' predicates joined by " AND "
\* in the domain's declared field order whatever the key order of the input
\* mapping, the bind-map keys are the active fields, and the sales scenario
\* (date_from, date_to, regions = ["DACH"]) yields the three predicates in
\* that order with regions bound to ("DACH",).
C4_Scenario ==
    (/\ domain = "sales"
     /\ DictGet(filters, "date_from") = PyStr("2025-01-01")
     /\ DictGet(filters, "date_to") = PyStr("2025-01-31")
     /\ DictGet(filters, "regions") = PyList(<<"DACH">>)
     /\ ~Selected(filters, "product_categories")
     /\ ~Selected(filters, "channels"))
        => /\ where_clause =
                "order_date >= :date_from AND order_date <= :date_to AND region IN :regions"
           /\ DictKeys(params) = {"date_from", "date_to", "regions"}
           /\ DictGet(params, "regions") = PyTuple(<<"DACH">>)

C4_DeclaredOrderJoin ==
    Built =>
        /\ conditions = ActivePredicates(domain, filters, 1)
        /\ where_clause =
              (IF conditions = <<>> THEN "1=1" ELSE join(" AND ", conditions))
        /\ DictKeys(params) =
              {field \in FieldSet(domain) : Active(domain, filters, field)}
        /\ C4_Scenario

\* the mapping lists regions first and date_from last, the fragment does not
C4_Witness ==
    /\ Built
    /\ domain = "sales"
    /\ Len(filters) = 5
    /\ filters[1].k = "regions"
    /\ filters[2].k = "date_to"
    /\ filters[5].k = "date_from"
    /\ where_clause =
          "order_date >= :date_from AND order_date <= :date_to AND region IN :regions"

-----------------------------------------------------------------------------
(* Properties of the run store *)

\* the instant a stored timestamp text stands for
TimeOf(text) == CHOOSE t \in Instants : isoformat(t) = text

\* the bijections of 1..n
Orderings(n) ==
    {p \in [1..n -> 1..n] : \A i, j \in 1..n : i # j => p[i] # p[j]}

\* listed holds every run of stored exactly once, newest first, runs of the
\* same instant in their stored order
NewestFirstStable(stored, listed) ==
    /\ Len(listed) = Len(stored)
    /\ \E p \in Orderings(Len(stored)) :
          /\ \A i \in 1..Len(stored) : listed[i] = stored[p[i]]
          /\ \A i, j \in 1..Len(stored) :
                i < j =>
                   /\ ~Earlier(TimeOf(listed[i].executed_at), TimeOf(listed[j].executed_at))
                   /\ listed[i].executed_at = listed[j].executed_at => p[i] < p[j]

T1 == [sec |-> 9, usec |-> 500000]
T2 == [sec |-> 10, usec |-> 0]
T3 == [sec |-> 10, usec |-> 1]

TimesOf(rs) == [i \in 1..Len(rs) |-> TimeOf(rs[i].executed_at)]

\* C8: get_runs() returns every stored run exactly once, newest first by
\* execution timestamp, runs with equal timestamps in insertion order; runs
\* with timestamps t1 < t2 < t3 come back as [t3, t2, t1] whatever the order
\* they were added in.
C8_NewestFirstStable ==
    (op.name = "get_runs" /\ op.arg = "") =>
        /\ ret.raised = ""
        /\ NewestFirstStable(StoredRuns, ret.value)
        /\ ({TimesOf(StoredRuns)[i] : i \in 1..Len(StoredRuns)} = {T1, T2, T3}
               /\ Len(StoredRuns) = 3)
              => TimesOf(ret.value) = <<T3, T2, T1>>

C8_Witness ==
    /\ op.name = "get_runs"
    /\ op.arg = ""
    /\ TimesOf(StoredRuns) = <<T2, T3, T1>>
    /\ TimesOf(ret.value) = <<T3, T2, T1>>

\* the stored runs of one domain, in stored order
OfDomain(stored, d) == SelectSeq(stored, LAMBDA r : r.domain = d)

\* C9: get_runs(d) returns exactly the stored runs whose domain is d, newest
\* first, without raising, and get_run_count(d) is their number.
C9_DomainListing ==
    /\ (op.name = "get_runs" /\ op.arg \in Domains) =>
          /\ ret.raised = ""
          /\ NewestFirstStable(OfDomain(StoredRuns, op.arg), ret.value)
    /\ (op.name = "get_run_count" /\ op.arg \in Domains) =>
          /\ ret.raised = ""
          /\ ret.value = Len(OfDomain(StoredRuns, op.arg))

\* C10: get_run_by_id(id) returns a stored run with that id when one exists
\* and None, without raising, when none does, also on an empty store and
\* directly after clear_runs.
C10_LookupById ==
    op.name = "get_run_by_id" =>
        /\ ret.raised = ""
        /\ IF op.arg \in StoredIds
           THEN /\ \E i \in 1..Len(StoredRuns) : ret.value = StoredRuns[i]
                /\ ret.value.id = op.arg
           ELSE ret.value = PyNone

\* a lookup of an id that was stored, made after clear_runs emptied the store
C10_Witness ==
    /\ op.name = "get_run_by_id"
    /\ op.cleared
    /\ op.arg = 1
    /\ StoredRuns = <<>>
    /\ ret = Return(PyNone)

\* the runs a listing with argument arg is about: all of them for "", else
\* those of that domain
Listed(stored, arg) == IF arg = "" THEN stored ELSE OfDomain(stored, arg)

\* C11: get_completed_runs(domain?) returns, without raising, exactly the
\* runs get_runs(domain?) lists whose status is Completed, in the same
\* newest-first order; no Pending, Running or Failed run is in it.
C11_CompletedListing ==
    op.name = "get_completed_runs" =>
        /\ ret.raised = ""
        /\ \A i \in 1..Len(ret.value) : ret.value[i].status = COMPLETED
        /\ NewestFirstStable(
              SelectSeq(Listed(StoredRuns, op.arg), LAMBDA r : r.status = COMPLETED),
              ret.value)

\* C12: directly after clear_runs, from any store content, get_runs() is
\* empty, get_run_count() is 0 and get_run_by_id returns None for every id
\* that was stored before.
C12_ClearEmpties ==
    [][op'.name = "clear_runs"
          => /\ get_runs(session_state', "") = Return(<<>>)
             /\ get_run_count(session_state', "") = Return(0)
             /\ \A id \in StoredIds :
                   get_run_by_id(session_state', id) = Return(PyNone)]_vars

\* clear_runs has just emptied a full store
C12_Witness ==
    /\ phase = "archive"
    /\ op.name = "clear_runs"
    /\ op.arg = MaxArchived
    /\ StoredRuns = <<>>
    /\ "runs" \in DOMAIN session_state

\* C14: every operation but clear_runs leaves the number of stored runs at
\* least what it was and every stored id retrievable by get_run_by_id.
C14_NeverRemoved ==
    [][op'.name # "clear_runs"
          => /\ Len(StoredRuns') >= Len(StoredRuns)
             /\ \A id \in StoredIds :
                   /\ get_run_by_id(session_state', id).raised = ""
                   /\ get_run_by_id(session_state', id).value # PyNone
                   /\ get_run_by_id(session_state', id).value.id = id]_vars

\* update_run has replaced a run of a full store, and the store is still full
C14_Witness ==
    /\ phase = "archive"
    /\ op.name = "update_run"
    /\ Len(StoredRuns) = MaxArchived
    /\ \E i \in 1..Len(StoredRuns) : StoredRuns[i] = op.arg
    /\ ~op.cleared

-----------------------------------------------------------------------------
(* Properties of run execution *)

\* the rows the run in the state has read
SelectedRows == Selection(domain, BuildWhere(domain, filters), table)

\* C5: a call of the WHERE generator that follows an earlier call with the
\* same domain and filter mapping, whatever runs, previews and store updates
\* came in between, leaves the WHERE fragment, its conditions and the bind
\* map as the earlier call produced them, and leaves the filter mapping and
\* the domain as they were.
C5_GeneratorIdempotent ==
    [][(calls >= 1 /\ calls' = calls + 1)
          => /\ where_clause' = where_clause
             /\ conditions' = conditions
             /\ params' = params
             /\ filters' = filters
             /\ domain' = domain]_vars

\* two generator calls were made on a mapping with active fields, a run was
\* executed, the store was written and a preview was generated
C5_Witness ==
    /\ phase = "run"
    /\ calls = 2
    /\ Len(conditions) >= 1
    /\ results.kind = "results"
    /\ op.name = "clear_runs"
    /\ op.arg = 0
    /\ "runs" \in DOMAIN session_state
    /\ ret = Return(PyStr(generate_sql_preview(domain, filters)))

\* the KPI that is a ratio, and the aggregate it is divided by
RatioName(d) ==
    CASE d = "sales" -> "conversion_rate"
      [] d = "procurement" -> "on_time_delivery"
      [] d = "finance" -> "operating_margin"

Denominator(d, rows) ==
    CASE d = "sales" -> CountDistinct(rows, "visitor_id")
      [] d = "procurement" -> DeliveryCount(rows)
      [] d = "finance" -> TotalIncome(rows)

\* C6 as stated: a run never raises a division error, and its ratio is 0.0
\* exactly when the denominator aggregate is 0.
C6_ZeroIffZeroDenominator ==
    results # NoResults =>
       /\ results.kind = "results"
       /\ results.kpis[RatioName(domain)] = 0
             <=> Denominator(domain, SelectedRows) = 0

\* C6, amended: a run never raises a division error, its ratio is 0.0
\* whenever the denominator aggregate is 0, and the conversion rate of a
\* sales run is 0.0 only then.
C6_ZeroWhenZeroDenominator ==
    results # NoResults =>
       /\ results.kind = "results"
       /\ Denominator(domain, SelectedRows) = 0
             => results.kpis[RatioName(domain)] = 0
       /\ (domain = "sales" /\ results.kpis[RatioName(domain)] = 0)
             => Denominator(domain, SelectedRows) = 0

\* a run over rows whose denominator aggregate is 0 has ended
C6_Witness ==
    /\ results.kind = "results"
    /\ SelectedRows # <<>>
    /\ Denominator(domain, SelectedRows) = 0
    /\ results.kpis[RatioName(domain)] = 0

\* the groups of the breakdown dimension among rows, and the summed value
\* the breakdown reports for a group
GroupsOf(d, rows) == {rows[i][BreakdownQuery(d).dimension] : i \in 1..Len(rows)}

GroupValue(d, rows, g) ==
    LET members == SelectSeq(rows, LAMBDA row : row[BreakdownQuery(d).dimension] = g)
    IN  int(IF d = "finance" THEN Total(AbsAll(Values(members, "amount")))
            ELSE Total(Values(members, BreakdownQuery(d).measure)))

\* C7: the breakdown of every run result has as many values as labels, at
\* most 10 of them, values in non-increasing order, and lists the top groups
\* of the domain's dimension: each label is a group with its summed value, no
\* label comes twice, all groups are listed when there are at most 10, and no
\* group left out has a larger value than a listed one.
C7_BreakdownTopTen ==
    results.kind = "results" =>
       LET labels == results.breakdown.labels
           values == results.breakdown.values
       IN  /\ Len(labels) = Len(values)
           /\ Len(labels) <= 10
           /\ \A i, j \in 1..Len(values) : i < j => values[i] >= values[j]
           /\ results.breakdown.dimension = BreakdownQuery(domain).dimension
           /\ Len(labels) = Min(10, Cardinality(GroupsOf(domain, SelectedRows)))
           /\ \A i, j \in 1..Len(labels) : i # j => labels[i] # labels[j]
           /\ \A i \in 1..Len(labels) :
                 /\ labels[i] \in GroupsOf(domain, SelectedRows)
                 /\ values[i] = GroupValue(domain, SelectedRows, labels[i])
           /\ \A g \in GroupsOf(domain, SelectedRows) :
                 (\A i \in 1..Len(labels) : labels[i] # g)
                    => \A i \in 1..Len(values) :
                          GroupValue(domain, SelectedRows, g) <= values[i]

\* a run over more than 10 groups, with equal values among them, has ended
C7_Witness ==
    /\ results.kind = "results"
    /\ Cardinality(GroupsOf(domain, SelectedRows)) > 10
    /\ Len(results.breakdown.labels) = 10
    /\ \E i \in 1..9 : results.breakdown.values[i] = results.breakdown.values[i + 1]

-----------------------------------------------------------------------------
(* SpecPress: the Run button of the Dashboards page, statement by statement. *)
(* phase is the handler's position; the database may fail at each query.     *)

\* the rows a query reads: those the WHERE fragment and bind map it is sent
\* with select
QueryRows == RowsWhere(domain, table, conditions, where_clause, params)

\* _execute_with_expanding_params turning the tuples of params into lists
ParamsAfterQuery_listed(prm) ==
    [i \in 1..Len(prm) |->
        IF prm[i].v.type = "tuple" THEN [k |-> prm[i].k, v |-> PyList(prm[i].v.v)]
        ELSE prm[i]]

\* the caller's params dict after _execute_with_expanding_params(sql, params):
\* the function reads params.items() and hands params to conn.execute, and
\* assigns to no key
ParamsAfterQuery(prm) == [i \in 1..Len(prm) |-> [k |-> prm[i].k, v |-> prm[i].v]]

\* the kpis dict of each domain
KpisOf(d, rows) ==
    CASE d = "sales" -> SalesKpis(rows)
      [] d = "procurement" -> ProcurementKpis(rows)
      [] d = "finance" -> FinanceKpis(rows)

\* the trends dict of each domain
TrendsOf(d, rows) ==
    CASE d = "sales" -> SalesTrends(MonthlyRows(rows, "order_date", "revenue"))
      [] d = "procurement" -> ProcurementTrends(MonthlyRows(rows, "purchase_date", "spend"))
      [] d = "finance" -> FinanceTrends(PeriodRows(rows))

\* the executor's locals once the kpis dict is built, or the exception its
\* ratio raised
KpiPart(kpis, ratio) ==
    IF kpis[ratio].raised # "" THEN Failure(kpis[ratio].raised)
    ELSE [kind |-> "partial", kpis |-> [kpis EXCEPT ![ratio] = @.value]]

\* the fact tables behind the page: empty, or one row
PressTables(d) == {<<>>} \cup {<<TableRows(d)[i]>> : i \in 1..Len(TableRows(d))}

\* state.set_current_run_id(run_id)
set_current_run_id(ss, run_id) ==
    [key \in DOMAIN ss \cup {"current_run_id"} |->
        IF key = "current_run_id" THEN run_id ELSE ss[key]]

InitPress ==
    /\ phase = "page"
    /\ domain \in Domains
    /\ filters \in RunFilters(domain)
    /\ table \in PressTables(domain)
    /\ results = NoResults
    /\ new_run = PyNone
    /\ issued = <<>>
    /\ GeneratorIdle
    /\ StoreIdle

\* the script runs from the top with the button pressed: init_state(), the
\* sidebar's get_run_count(), then run = Run(domain=domain, filters=filters,
\* status=RunStatus.RUNNING) with a new uuid and executed_at = now
PressRun ==
    /\ phase = "page"
    /\ calls < MaxCalls
    /\ \E t \in Instants :
          new_run' = [Run(calls + 1, domain, isoformat(t), RUNNING) EXCEPT !.filters = filters]
    /\ session_state' = init_state(session_state)
    /\ op' = Called("get_run_count", "")
    /\ issued' = <<>>
    /\ results' = NoResults
    /\ phase' = "created"
    /\ UNCHANGED <<domain, filters, conditions, where_clause, params, calls, ret, table>>

\* execute_run: sql_preview = generate_sql_preview(domain, filters)
PreviewStep ==
    /\ phase = "created"
    /\ ret' = Return(PyStr(generate_sql_preview(domain, filters)))
    /\ phase' = "previewed"
    /\ UNCHANGED <<domain, filters, conditions, where_clause, params, calls, session_state,
                   op, table, results, new_run, issued>>

\* an executor that records a run of its own in the store before it queries
BuildStep_recording ==
    /\ phase = "previewed"
    /\ conditions' = BuildWhere(domain, filters).conditions
    /\ where_clause' = BuildWhere(domain, filters).where_clause
    /\ params' = BuildWhere(domain, filters).params
    /\ calls' = calls + 1
    /\ session_state' = add_run(session_state, new_run)
    /\ phase' = "built"
    /\ UNCHANGED <<domain, filters, op, ret, table, results, new_run, issued>>

\* _execute_<domain>_run: where_clause, params = _build_<domain>_where_clause(filters)
BuildStep ==
    /\ phase = "previewed"
    /\ conditions' = BuildWhere(domain, filters).conditions
    /\ where_clause' = BuildWhere(domain, filters).where_clause
    /\ params' = BuildWhere(domain, filters).params
    /\ calls' = calls + 1
    /\ phase' = "built"
    /\ UNCHANGED <<domain, filters, session_state, op, ret, table, results, new_run, issued>>

\* the exception e leaves execute_run and the handler: the script run ends
\* and the Run object is dropped
Aborted(e) ==
    /\ results' = Failure(e)
    /\ ret' = Raise(e)
    /\ new_run' = PyNone
    /\ phase' = "page"

\* kpi_rows = _execute_with_expanding_params(kpi_sql, params) and the kpis dict
QueryKpis ==
    /\ phase = "built"
    /\ issued' = Append(issued, Query("kpi", where_clause, params))
    /\ params' = ParamsAfterQuery(params)
    /\ IF KpiPart(KpisOf(domain, QueryRows), RatioName(domain)).kind = "raised"
       THEN Aborted(KpiPart(KpisOf(domain, QueryRows), RatioName(domain)).raised)
       ELSE /\ results' = KpiPart(KpisOf(domain, QueryRows), RatioName(domain))
            /\ phase' = "kpi"
            /\ UNCHANGED <<ret, new_run>>
    /\ UNCHANGED <<domain, filters, conditions, where_clause, calls, session_state, op, table>>

\* trend_rows = _execute_with_expanding_params(trends_sql, params) and the
\* trends dict
QueryTrends ==
    /\ phase = "kpi"
    /\ issued' = Append(issued, Query("trend", where_clause, params))
    /\ params' = ParamsAfterQuery(params)
    /\ results' = [kind |-> "partial", kpis |-> results.kpis,
                   trends |-> TrendsOf(domain, QueryRows)]
    /\ phase' = "trend"
    /\ UNCHANGED <<domain, filters, conditions, where_clause, calls, session_state, op, ret,
                   table, new_run>>

\* breakdown_rows = _execute_with_expanding_params(breakdown_sql, params), the
\* breakdown dict and the return of the results dict to the handler
QueryBreakdown ==
    /\ phase = "trend"
    /\ issued' = Append(issued, Query("breakdown", where_clause, params))
    /\ params' = ParamsAfterQuery(params)
    /\ \E newest_first \in BOOLEAN :
          results' = Results(results.kpis, results.trends,
                             Breakdown(BreakdownQuery(domain),
                                       BreakdownRows(BreakdownQuery(domain), QueryRows,
                                                     newest_first)))
    /\ phase' = "returned"
    /\ UNCHANGED <<domain, filters, conditions, where_clause, calls, session_state, op, ret,
                   table, new_run>>

\* the query a position of the executor sends next
NextQuery == CASE phase = "built" -> "kpi" [] phase = "kpi" -> "trend" [] OTHER -> "breakdown"

\* an executor that notes the failure of a query and goes on to the next one
QueryFails_continuing ==
    /\ phase \in {"built", "kpi"}
    /\ issued' = Append(issued, Query(NextQuery, where_clause, params))
    /\ results' = [kind |-> "raised", raised |-> "OperationalError",
                   kpis |-> <<>>, trends |-> <<>>]
    /\ phase' = IF phase = "built" THEN "kpi" ELSE "trend"
    /\ UNCHANGED <<domain, filters, conditions, where_clause, params, calls, session_state,
                   op, ret, table, new_run>>

\* a handler that catches the exception and stores the run as Completed with
\* an empty results dict
QueryFails_swallowed ==
    /\ phase \in {"built", "kpi", "trend"}
    /\ issued' = Append(issued, Query(NextQuery, where_clause, params))
    /\ results' = [kind |-> "empty"]
    /\ session_state' = add_run(session_state,
                                [new_run EXCEPT !.status = COMPLETED,
                                                !.results = [kind |-> "empty"]])
    /\ new_run' = PyNone
    /\ phase' = "page"
    /\ UNCHANGED <<domain, filters, conditions, where_clause, params, calls, op, ret, table>>

\* get_connection() or conn.execute raises (database unreachable): nothing
\* catches it between the query and the top of the script
QueryFails ==
    /\ phase \in {"built", "kpi", "trend"}
    /\ issued' = Append(issued, Query(NextQuery, where_clause, params))
    /\ Aborted("OperationalError")
    /\ UNCHANGED <<domain, filters, conditions, where_clause, params, calls, session_state,
                   op, table>>

\* a handler that stores the run as soon as execute_run has returned
CompleteRun_storing ==
    /\ phase = "returned"
    /\ session_state' = add_run(session_state, new_run)
    /\ new_run' = [new_run EXCEPT !.status = COMPLETED, !.results = results,
                                  !.sql_preview = ret.value.v]
    /\ phase' = "stored"
    /\ UNCHANGED <<domain, filters, conditions, where_clause, params, calls,
                   op, ret, table, results, issued>>

\* run.status = RunStatus.COMPLETED; run.results = results;
\* run.sql_preview = sql_preview
CompleteRun ==
    /\ phase = "returned"
    /\ new_run' = [new_run EXCEPT !.status = COMPLETED, !.results = results,
                                  !.sql_preview = ret.value.v]
    /\ phase' = "completed"
    /\ UNCHANGED <<domain, filters, conditions, where_clause, params, calls, session_state,
                   op, ret, table, results, issued>>

\* state.add_run(run)
StoreRun ==
    /\ phase = "completed"
    /\ session_state' = add_run(session_state, new_run)
    /\ op' = Called("add_run", new_run.id)
    /\ phase' = "stored"
    /\ UNCHANGED <<domain, filters, conditions, where_clause, params, calls, ret, table,
                   results, new_run, issued>>

\* state.set_current_run_id(run.id); st.success(...); st.rerun()
SetCurrentRunId ==
    /\ phase = "stored"
    /\ session_state' = set_current_run_id(session_state, new_run.id)
    /\ new_run' = PyNone
    /\ phase' = "page"
    /\ UNCHANGED <<domain, filters, conditions, where_clause, params, calls, op, ret, table,
                   results, issued>>

\* current_run = state.get_run_by_id(current_run_id), between two presses
LookUpRun == phase = "page" /\ GetRunById

NextPress ==
    \/ PressRun \/ PreviewStep \/ BuildStep
    \/ QueryKpis \/ QueryTrends \/ QueryBreakdown \/ QueryFails
    \/ CompleteRun \/ StoreRun \/ SetCurrentRunId
    \/ LookUpRun \/ GetCompletedRuns

SpecPress == InitPress /\ [][NextPress]_vars

-----------------------------------------------------------------------------
(* Properties of the Run button handler *)

InHandler == new_run # PyNone

\* the positions at which the handler has not attached results yet
BeforeResults == {"created", "previewed", "built", "kpi", "trend", "returned"}

\* the positions inside the call of execute_run
InExecuteRun == {"created", "previewed", "built", "kpi", "trend"}

\* C13: on a press the Run object is created Running, with its timestamp, a
\* new id and no results, before any query is issued; queries are issued
\* only while it is Running; its id, domain, filters and executed_at never
\* change; its only change is the one from Running to Completed, made
\* together with attaching the results dict and the SQL preview of the
\* execution that has just returned; it is appended to the store only as a
\* Completed run; and no later step of a press, listing or lookup changes a
\* stored run.
C13_Lifecycle ==
    [][/\ (~InHandler /\ new_run' # PyNone) =>
             /\ new_run'.status = RUNNING
             /\ new_run'.executed_at # ""
             /\ new_run'.results = <<>> /\ new_run'.sql_preview = ""
             /\ new_run'.id \notin StoredIds
             /\ issued' = <<>>
       /\ issued' # issued /\ issued' # <<>> => InHandler /\ new_run.status = RUNNING
       /\ (new_run' # PyNone /\ phase' \in BeforeResults) => new_run'.status = RUNNING
       /\ (InHandler /\ new_run' # PyNone) =>
             /\ new_run'.id = new_run.id
             /\ new_run'.domain = new_run.domain
             /\ new_run'.filters = new_run.filters
             /\ new_run'.executed_at = new_run.executed_at
             /\ new_run' # new_run =>
                   /\ new_run.status = RUNNING /\ new_run'.status = COMPLETED
                   /\ results.kind = "results" /\ Len(issued) = 3
                   /\ new_run'.results = results
                   /\ new_run'.sql_preview = generate_sql_preview(domain, filters)
       /\ StoredRuns' # StoredRuns =>
             /\ StoredRuns' = Append(StoredRuns, new_run)
             /\ new_run.status = COMPLETED
       /\ \A i \in 1..Len(StoredRuns) : i <= Len(StoredRuns') /\ StoredRuns'[i] = StoredRuns[i]
      ]_vars

\* two presses have stored their runs and the first one was looked up again
C13_Witness ==
    /\ phase = "page"
    /\ Len(StoredRuns) = 2
    /\ op.name = "get_run_by_id"
    /\ ret = Return(StoredRuns[1])
    /\ StoredRuns[1].status = COMPLETED
    /\ StoredRuns[1].results.kind = "results"

\* what get_completed_runs gives for every argument
CompletedListings(ss) ==
    [bc \in {""} \cup Domains |-> get_completed_runs(ss, bc)]

\* C15: when a query of a press raises, the handler ends there: the store is
\* as it was, the run of that press is not in it, and get_completed_runs
\* gives what it gave before; no step of a press before add_run changes
\* what get_completed_runs gives; and every Completed run in the store
\* carries the results dict of an execution that returned.
C15_FailedNeverCompleted ==
    [][/\ (issued' # issued /\ InHandler /\ new_run' = PyNone) =>
             /\ session_state' = session_state
             /\ new_run.status # COMPLETED
             /\ new_run.id \notin StoredIds'
             /\ ret'.raised # ""
       /\ ((InHandler \/ new_run' # PyNone) /\ phase' # "stored") =>
             CompletedListings(session_state') = CompletedListings(session_state)
       /\ \A i \in 1..Len(StoredRuns') :
             StoredRuns'[i].status = COMPLETED => StoredRuns'[i].results.kind = "results"
      ]_vars

\* the third query of a press failed while the store held the run of an
\* earlier press
C15_Witness ==
    /\ phase = "page"
    /\ results = Failure("OperationalError")
    /\ Len(issued) = 3
    /\ calls = 2
    /\ Len(StoredRuns) = 1
    /\ StoredRuns[1].id = 1

\* every KPI is zero and every trend and breakdown array is empty
ZeroResults(r) ==
    /\ r.kind = "results"
    /\ \A name \in DOMAIN r.kpis : r.kpis[name] = 0
    /\ \A name \in DOMAIN r.trends : r.trends[name] = <<>>
    /\ r.breakdown.labels = <<>> /\ r.breakdown.values = <<>>

\* C16: when no row of the fact table matches the filters, nothing but an
\* unreachable database makes the press fail, the results dict execute_run
\* returns has every KPI zero and every trend and breakdown array empty,
\* and the run is stored Completed with that dict.
C16_ZeroRows ==
    SelectedRows = <<>> =>
       /\ results.kind = "raised" => results.raised = "OperationalError"
       /\ results.kind = "partial" => \A name \in DOMAIN results.kpis : results.kpis[name] = 0
       /\ phase \in {"returned", "completed", "stored"} => ZeroResults(results)
       /\ phase = "stored" => StoredRuns[Len(StoredRuns)] = new_run
       /\ \A i \in 1..Len(StoredRuns) :
             StoredRuns[i].status = COMPLETED /\ ZeroResults(StoredRuns[i].results)

\* a run over a table whose only row the active filters exclude was stored
C16_Witness ==
    /\ phase = "page"
    /\ table # <<>>
    /\ SelectedRows = <<>>
    /\ Len(conditions) >= 1
    /\ Len(StoredRuns) >= 1
    /\ StoredRuns[1].status = COMPLETED
    /\ ZeroResults(StoredRuns[1].results)

\* C19: within a press the WHERE generator is called exactly once, before
\* the first query, and every query is sent with the fragment and the bind
\* map that call returned.
C19_SharedWhere ==
    /\ \A i \in 1..Len(issued) :
          /\ issued[i].where_clause = BuildWhere(domain, filters).where_clause
          /\ issued[i].params = BuildWhere(domain, filters).params
          /\ issued[i].where_clause = issued[1].where_clause
          /\ issued[i].params = issued[1].params
    /\ InHandler =>
          calls = IF phase \in {"created", "previewed"} THEN new_run.id - 1 ELSE new_run.id
    /\ issued # <<>> /\ InHandler => calls = new_run.id

\* the three queries of a press were sent with a bind map that holds a tuple
C19_Witness ==
    /\ phase = "returned"
    /\ Len(issued) = 3
    /\ issued[1].query = "kpi" /\ issued[2].query = "trend" /\ issued[3].query = "breakdown"
    /\ \E i \in 1..Len(params) : params[i].v.type = "tuple"

\* C20: no step inside execute_run, whether it returns or raises, changes
\* st.session_state (the run list and the selected domain with it), the
\* domain or the filter mapping, in the caller's hands or in the Run object;
\* the run list changes only by the handler's add_run, which appends the run.
C20_ExecuteRunFrame ==
    [][/\ phase \in InExecuteRun =>
             /\ session_state' = session_state
             /\ domain' = domain
             /\ filters' = filters
             /\ new_run' # PyNone => new_run' = new_run
       /\ StoredRuns' # StoredRuns =>
             /\ phase = "completed"
             /\ StoredRuns' = Append(StoredRuns, new_run)
             /\ phase' = "stored"
      ]_vars

\* execute_run returned while the store held a run, with active filters
C20_Witness ==
    /\ phase = "returned"
    /\ results.kind = "results"
    /\ Len(StoredRuns) = 1
    /\ Len(conditions) >= 1
    /\ table # <<>>

-----------------------------------------------------------------------------
(* Properties of the filter factory and of unknown domain tags *)

\* the raw mapping holds a key the domain's contract does not declare
HasUndeclaredKey == domain \in Domains /\ ~(DictKeys(filters) \subseteq FieldSet(domain))

\* C17: for every domain and every raw mapping that holds a key which is not
\* one of the domain's declared filter fields, create_filters_from_dict (and
\* so the domain's from_dict) fails instead of returning a FilterSet.
C17_RejectsUnknownFields ==
    (op.name = "create_filters_from_dict" /\ HasUndeclaredKey) => ret.raised # ""

PLACEHOLDER == "-- Unknown domain"

\* C18: for every tag that is not sales, procurement or finance and every
\* filter mapping, generate_sql_preview returns the comment-only placeholder
\* without raising, execute_run issues no query (and calls no WHERE
\* generator) and returns an empty result with that placeholder, and
\* create_filters_from_dict fails with a ValueError.
C18_UnknownDomain ==
    domain \notin Domains =>
       /\ op.name = "generate_sql_preview" => ret = Return(PyStr(PLACEHOLDER))
       /\ op.name = "execute_run" =>
              /\ ret = Return(PyStr(PLACEHOLDER))
              /\ results = [kind |-> "empty"]
       /\ op.name = "create_filters_from_dict" => ret = Raise("ValueError")
       /\ issued = <<>>
       /\ calls = 0

\* execute_run has returned for a tag that is no domain, with a mapping that
\* has an active field
C18_Witness ==
    /\ phase = "factory"
    /\ domain \in OtherTags
    /\ op.name = "execute_run"
    /\ results.kind = "empty"
    /\ \E i \in 1..Len(filters) : Truthy(filters[i].v)

-----------------------------------------------------------------------------
(* Properties of the trend results *)

\* C21: in every results dict a run returns, each trend series has as many
\* entries as the months list.
C21_TrendLengths ==
    results.kind = "results" =>
       \A name \in DOMAIN results.trends :
          Len(results.trends[name]) = Len(results.trends.months)

\* a run returned trends over two months, one of them with a zero amount
C21_Witness ==
    /\ phase = "run"
    /\ results.kind = "results"
    /\ Len(results.trends.months) = 2
    /\ \E name \in DOMAIN results.trends \ {"months"} : results.trends[name][1] = 0

\* the calendar months of the rows the filters select
MonthsPresent ==
    {Day(SelectedRows[i][FilterColumn(domain, FilterFields(domain)[1])]).month :
        i \in 1..Len(SelectedRows)}

MonthNumber(label) == CHOOSE m \in 1..12 : MonthAbbrev(m) = label

\* the months list has one entry per calendar month of the selected rows,
\* in ascending calendar order, each a three-letter abbreviation
MonthlyTrend(months) ==
    /\ Len(months) = Cardinality(MonthsPresent)
    /\ \A i \in 1..Len(months) :
          \E m \in MonthsPresent : months[i] = MonthAbbrev(m)
    /\ \A i \in 1..Len(months) : \A j \in (i + 1)..Len(months) :
          MonthNumber(months[i]) < MonthNumber(months[j])

\* C22: for every domain and every table, rows of more than one year
\* included, the trend has one entry per calendar month present in the
\* selected rows, ordered by calendar month, labelled Jan..Dec.
C22_TrendByMonth ==
    results.kind = "results" => MonthlyTrend(results.trends.months)

-----------------------------------------------------------------------------
(* Properties of the finance scenario and of the two WHERE paths *)

NoActiveField == \A field \in FieldSet(domain) : ~Active(domain, filters, field)

\* ret holds a preview text
PreviewReturned == ret # NoOp /\ ret.raised = "" /\ ret.value.type = "str"

\* C23: for finance with no active filter, the preview text that
\* generate_sql_preview and execute_run return is the finance SELECT followed
\* by "WHERE 1=1", and the posting_count of the run's KPIs is the number of
\* rows of the table, hence not negative.
C23_FinanceNoFilters ==
    (domain = "finance" /\ NoActiveField) =>
       /\ PreviewReturned =>
             ret.value.v = PreviewSelect("finance") \o " WHERE " \o "1=1"
       /\ results.kind = "results" =>
             /\ results.kpis.posting_count >= 0
             /\ results.kpis.posting_count = Len(table)

\* a finance run with every widget left empty returned over a table with rows
C23_Witness ==
    /\ phase = "run"
    /\ domain = "finance"
    /\ Len(filters) = 5
    /\ NoActiveField
    /\ PreviewReturned
    /\ results.kind = "results"
    /\ results.kpis.posting_count >= 1

\* another value of the same kind: a bound becomes another date text, a
\* non-empty selection gets other strings, what is inactive stays as it is
OtherValue(x) ==
    CASE x.type = "str" /\ x.v # "" -> PyStr("1999-12-31")
      [] x.type = "list" /\ x.v # <<>> -> PyList(<<"O'Brien", "x) OR (1=1">> \o x.v)
      [] OTHER -> x

\* the mapping f with every active value replaced
Revalued(f) == [i \in 1..Len(f) |-> [k |-> f[i].k, v |-> OtherValue(f[i].v)]]

\* C24: the fragment (text and conditions) the generator returns for a
\* mapping is the one it returns for the mapping with the same active
\* fields and other values; the two bind maps have the same names and
\* differ in the value of every one of them.
C24_FragmentIgnoresValues ==
    Built =>
       /\ BuildWhere(domain, Revalued(filters)).where_clause = where_clause
       /\ BuildWhere(domain, Revalued(filters)).conditions = conditions
       /\ DictKeys(BuildWhere(domain, Revalued(filters)).params) = DictKeys(params)
       /\ \A name \in DictKeys(params) :
             DictGet(BuildWhere(domain, Revalued(filters)).params, name) # DictGet(params, name)

\* a fragment was built from both bounds and a selection of two values
C24_Witness ==
    /\ Built
    /\ Len(conditions) = 3
    /\ BoundPresent(filters, FilterFields(domain)[1])
    /\ BoundPresent(filters, FilterFields(domain)[2])
    /\ Selected(filters, FilterFields(domain)[3])
    /\ Len(DictGet(filters, FilterFields(domain)[3]).v) = 2

-----------------------------------------------------------------------------
(* Properties of the order of the queries *)

QueryOrder == <<"kpi", "trend", "breakdown">>

\* C25: the queries of a press are sent one at a time in the order KPI,
\* trend, breakdown, each after the result of the one before it was taken;
\* once a query has failed no further query of that press is sent; the run
\* is appended only when all three have returned; and the first query of
\* another press is sent only after the handler of the press before it has
\* ended.
C25_SequentialQueries ==
    [][/\ Len(issued') <= 3
       /\ \A i \in 1..Len(issued') : issued'[i].query = QueryOrder[i]
       /\ issued' # issued =>
             \/ /\ InHandler
                /\ Len(issued') = Len(issued) + 1
                /\ SubSeq(issued', 1, Len(issued)) = issued
                /\ new_run' \in {new_run, PyNone}
                /\ Len(issued) = 1 => results.kind = "partial" /\ "trends" \notin DOMAIN results
                /\ Len(issued) = 2 => results.kind = "partial" /\ "trends" \in DOMAIN results
             \/ /\ ~InHandler
                /\ new_run' # PyNone
                /\ issued' = <<>>
       /\ results.kind = "raised" => (issued' = issued \/ (~InHandler /\ issued' = <<>>))
       /\ (~InHandler /\ new_run' # PyNone) => phase = "page"
       /\ StoredRuns' # StoredRuns => Len(issued) = 3 /\ results.kind = "results"
      ]_vars

\* the trend query of a second press failed, after a first press was stored
C25_Witness ==
    /\ phase = "page"
    /\ calls = 2
    /\ results = Failure("OperationalError")
    /\ Len(issued) = 2
    /\ Len(StoredRuns) = 1

-----------------------------------------------------------------------------
(* Properties of the filter options *)

\* the entry of a name in a returned mapping
Entry(mapping, name) == DictItem(mapping, name)

\* C26: get_filter_options never raises; for a known domain it returns an
\* entry for every name of the domain that has a distinct-values query (all
\* its multi-select fields among them), the entry of a name whose query
\* failed being the empty list and every other entry being the list the
\* call returns when no query fails; for any other tag it returns the empty
\* mapping and sends no query.
C26_FilterOptions ==
    op.name = "get_filter_options" =>
       /\ ret.raised = ""
       /\ domain \in Domains =>
             /\ DictKeys(ret.value) = {FILTER_COLUMNS(domain)[i] : i \in 1..Len(FILTER_COLUMNS(domain))}
             /\ MultiFields(domain) \subseteq DictKeys(ret.value)
             /\ Len(issued) = Len(ret.value)
             /\ \A name \in DictKeys(ret.value) :
                   Entry(ret.value, name) =
                      IF name \in op.arg THEN PyList(<<>>)
                      ELSE Entry(get_filter_options(domain, table, {}).value, name)
       /\ domain \notin Domains => ret.value = <<>> /\ issued = <<>>

\* the query of the second name failed, the first and third returned values
C26_Witness ==
    /\ phase = "factory"
    /\ op.name = "get_filter_options"
    /\ domain \in Domains
    /\ op.arg = {FILTER_COLUMNS(domain)[2]}
    /\ Len(table) > 1
    /\ ret.value[1].v.v # <<>>
    /\ ret.value[2].v.v = <<>>
    /\ ret.value[3].v.v # <<>>

-----------------------------------------------------------------------------
(* Properties of the preview against the executed WHERE fragment *)

\* the active fields of a mapping, in declaration order
ActiveFields(d, f) == SelectSeq(FilterFields(d), LAMBDA field : Active(d, f, field))

\* the comparison operator of a field
Comparison(d, field) ==
    CASE field = FilterFields(d)[1] -> ">="
      [] field = FilterFields(d)[2] -> "<="
      [] OTHER -> "IN"

\* a predicate on the column of a field with the given right-hand side
Comparing(d, field, operand) ==
    FilterColumn(d, field) \o " " \o Comparison(d, field) \o " " \o operand

\* the value of a field written into the text: a quoted bound, or the
\* quoted values of a selection in brackets
Inlined(x) == IF x.type = "str" THEN "'" \o x.v \o "'" ELSE "(" \o Quoted(x.v) \o ")"

\* C27: for every domain and filter mapping the executed fragment has one
\* placeholder predicate per active field, in declaration order, and the
\* WHERE part of the preview has a predicate on the same column with the
\* same operator for exactly these fields in the same order, the value
\* inlined; the fragment is '1=1' exactly when the preview's WHERE part is.
C27_PreviewMatchesExecuted ==
    Built =>
       /\ conditions =
             [i \in 1..Len(ActiveFields(domain, filters)) |->
                Comparing(domain, ActiveFields(domain, filters)[i],
                          ":" \o ActiveFields(domain, filters)[i])]
       /\ generate_sql_preview(domain, filters) =
             PreviewSelect(domain) \o " WHERE "
             \o (IF conditions = <<>> THEN "1=1"
                 ELSE join(" AND ",
                        [i \in 1..Len(conditions) |->
                           Comparing(domain, ActiveFields(domain, filters)[i],
                                     Inlined(DictGet(filters, ActiveFields(domain, filters)[i])))]))
       /\ where_clause = "1=1" <=>
             generate_sql_preview(domain, filters) = PreviewSelect(domain) \o " WHERE 1=1"

\* a bound, an empty selection and a selection of two values
C27_Witness ==
    /\ Built
    /\ Len(filters) = 4
    /\ ActiveFields(domain, filters) = <<FilterFields(domain)[2], FilterFields(domain)[3]>>
    /\ Len(DictGet(filters, FilterFields(domain)[3]).v) = 2
    /\ \E field \in MultiFields(domain) :
          field \in DictKeys(filters) /\ DictGet(filters, field) = PyList(<<>>)
    /\ Len(conditions) = 2

-----------------------------------------------------------------------------
(* Properties of the read operations and of update_run *)

ReadOperations == {"get_runs", "get_completed_runs", "get_run_by_id", "get_run_count"}

\* C28: a step of get_runs, get_completed_runs, get_run_by_id or
\* get_run_count, with or without a domain argument, leaves the stored list
\* as it was (same runs, same insertion order), and calling the same
\* operation again with the same argument gives the same outcome.
C28_ReadsLeaveStore ==
    [][op'.name \in ReadOperations =>
         /\ StoredRuns' = StoredRuns
         /\ op'.name = "get_runs" =>
               /\ get_runs(session_state', op'.arg) = ret'
               /\ get_runs(session_state, op'.arg) = ret'
         /\ op'.name = "get_completed_runs" =>
               get_completed_runs(session_state', op'.arg) = ret'
         /\ op'.name = "get_run_count" =>
               get_run_count(session_state', op'.arg) = ret'
         /\ op'.name = "get_run_by_id" =>
               get_run_by_id(session_state', op'.arg) = ret']_vars

\* get_runs returned the two stored runs newest first while the store holds
\* them in insertion order, oldest first
C28_Witness ==
    /\ phase = "archive"
    /\ op.name = "get_runs"
    /\ op.arg = ""
    /\ Len(StoredRuns) = 2
    /\ StrLess(StoredRuns[1].executed_at, StoredRuns[2].executed_at)
    /\ ret.raised = ""
    /\ ret.value = <<StoredRuns[2], StoredRuns[1]>>

\* the position of the first stored run with the id, 0 when there is none
FirstWithId(stored, id) ==
    IF \E i \in 1..Len(stored) : stored[i].id = id
    THEN CHOOSE i \in 1..Len(stored) :
            stored[i].id = id /\ \A j \in 1..(i - 1) : stored[j].id # id
    ELSE 0

\* C29: update_run(run) raises nothing and keeps the number of stored runs;
\* when a stored run has run.id, the first such entry becomes run at its
\* position and every other entry stays as it was; when none has, the
\* stored list is unchanged and run is not appended.
C29_UpdateRunInPlace ==
    [][op'.name = "update_run" =>
         /\ ret'.raised = ""
         /\ Len(StoredRuns') = Len(StoredRuns)
         /\ \A i \in 1..Len(StoredRuns) :
               StoredRuns'[i] = IF i = FirstWithId(StoredRuns, op'.arg.id)
                                THEN op'.arg ELSE StoredRuns[i]
         /\ FirstWithId(StoredRuns, op'.arg.id) = 0 => StoredRuns' = StoredRuns]_vars

\* two stored runs had the id: the first is the updated run, the second is
\* still the old one
C29_Witness ==
    /\ phase = "archive"
    /\ op.name = "update_run"
    /\ Len(StoredRuns) = 2
    /\ StoredRuns[1] = op.arg
    /\ StoredRuns[2].id = op.arg.id
    /\ StoredRuns[2] # op.arg

\* the updated run had an id no stored run has: the list is as before
C29_MissingId ==
    /\ phase = "archive"
    /\ op.name = "update_run"
    /\ Len(StoredRuns) = 1
    /\ StoredRuns[1].id # op.arg.id

-----------------------------------------------------------------------------
(* Serialization: to_dict and from_dict of the filter sets and of Run *)

\* the decimal text of n in w digits
RECURSIVE DigitsText(_, _)
DigitsText(n, w) ==
    IF w = 0 THEN ""
    ELSE DigitsText(n \div 10, w - 1)
         \o <<"0", "1", "2", "3", "4", "5", "6", "7", "8", "9">>[(n % 10) + 1]

\* date.isoformat(): 'YYYY-MM-DD'
date_isoformat(d) ==
    DigitsText(d.year, 4) \o "-" \o DigitsText(d.month, 2) \o "-" \o DigitsText(d.day, 2)

\* self.date_from.isoformat() if self.date_from else None
DateText(x) == IF x.type = "date" THEN PyStr(date_isoformat(x)) ELSE PyNone

\* SalesFilters.to_dict / ProcurementFilters.to_dict: the bounds as text, the
\* lists as they are; FinanceFilters.to_dict: every field as it is
FilterSet_to_dict(f) ==
    [i \in 1..Len(f.fields) |->
        [k |-> f.fields[i].k,
         v |-> IF i <= 2 /\ f.class # "FinanceFilters"
               THEN DateText(f.fields[i].v) ELSE f.fields[i].v]]

\* the members of RunStatus
RunStatusMember(name) == [enum |-> "RunStatus", name |-> name]

\* member.value
RunStatus_value(member) ==
    CASE member.name = "PENDING" -> PENDING
      [] member.name = "RUNNING" -> RUNNING
      [] member.name = "COMPLETED" -> COMPLETED
      [] member.name = "FAILED" -> FAILED

\* RunStatus(value): the member with the value, else ValueError
RunStatus(value) ==
    IF \E name \in {"PENDING", "RUNNING", "COMPLETED", "FAILED"} :
          RunStatus_value(RunStatusMember(name)) = value
    THEN Return(RunStatusMember(
            CHOOSE name \in {"PENDING", "RUNNING", "COMPLETED", "FAILED"} :
               RunStatus_value(RunStatusMember(name)) = value))
    ELSE Raise("ValueError")

\* Run.to_dict()
Run_to_dict(r) ==
    <<[k |-> "id", v |-> r.id],
      [k |-> "domain", v |-> r.domain],
      [k |-> "filters", v |-> r.filters],
      [k |-> "executed_at", v |-> r.executed_at],
      [k |-> "status", v |-> RunStatus_value(r.status)],
      [k |-> "results", v |-> r.results],
      [k |-> "sql_preview", v |-> r.sql_preview]>>

\* a __post_init__ that stamps every new object
post_init_stamping(r, now) == [r EXCEPT !.executed_at = now]

\* Run.__post_init__: executed_at is set only when it is empty
post_init(r, now) ==
    IF r.executed_at = <<>> THEN [r EXCEPT !.executed_at = now] ELSE r

\* Run.from_dict(data), uuid4() giving fresh and datetime.now() giving now
Run_from_dict(data, fresh, now) ==
    IF RunStatus(DictGetDefault(data, "status", PENDING)).raised # ""
    THEN RunStatus(DictGetDefault(data, "status", PENDING))
    ELSE Return(post_init(
            [id |-> DictGetDefault(data, "id", fresh),
             domain |-> DictGetDefault(data, "domain", ""),
             filters |-> DictGetDefault(data, "filters", <<>>),
             executed_at |-> DictGetDefault(data, "executed_at", <<>>),
             status |-> RunStatus(DictGetDefault(data, "status", PENDING)).value,
             results |-> DictGetDefault(data, "results", <<>>),
             sql_preview |-> DictGetDefault(data, "sql_preview", "")],
            now))

-----------------------------------------------------------------------------
(* SpecSerial: an object is built, written to a mapping and read back *)

\* the dates of the calendar
SerialDates ==
    {[type |-> "date", year |-> c.rank \div 10000, month |-> c.month, day |-> c.rank % 100] :
        c \in {x \in Calendar : x.rank % 100 # 0}}

\* the values of a bound of a filter set
BoundValues(d) ==
    IF d = "finance" THEN {PyNone, PyStr("2025-01"), PyStr("2025-12")}
    ELSE {PyNone} \cup SerialDates

\* the dataclass of a domain
ClassOf(d) ==
    CASE d = "sales" -> "SalesFilters"
      [] d = "procurement" -> "ProcurementFilters"
      [] d = "finance" -> "FinanceFilters"

\* the filter sets of a domain
FilterSets(d) ==
    {FilterSet(ClassOf(d), d, <<a, b, x, y, z>>) :
        a \in BoundValues(d), b \in BoundValues(d),
        x \in FieldValues(d, FilterFields(d)[3]),
        y \in FieldValues(d, FilterFields(d)[4]),
        z \in FieldValues(d, FilterFields(d)[5])}

\* the results a run may carry: none yet, or the KPIs of an empty table
SerialResults ==
    {<<>>, <<[k |-> "kpis", v |-> <<[k |-> "count", v |-> 0]>>]>>}

\* the Run objects of a domain: created by the constructor, so with an id
\* and a timestamp
SerialRuns(d) ==
    {[id |-> id, domain |-> d, filters |-> f, executed_at |-> isoformat(t),
      status |-> RunStatusMember(name), results |-> r,
      sql_preview |-> IF r = <<>> THEN "" ELSE generate_sql_preview(d, f)] :
        id \in 1..MaxCalls, f \in RunFilters(d), t \in Instants,
        name \in {"PENDING", "RUNNING", "COMPLETED", "FAILED"}, r \in SerialResults}

InitSerial ==
    /\ phase = "serial"
    /\ domain \in Domains
    /\ filters = <<>>
    /\ GeneratorIdle
    /\ StoreIdle
    /\ ExecutorIdle

SerialFrame ==
    UNCHANGED <<phase, domain, conditions, where_clause, params, calls, session_state,
                table, results, issued>>

\* run = Run(...)
NewRun ==
    /\ phase = "serial"
    /\ op = NoOp
    /\ \E r \in SerialRuns(domain) :
          /\ new_run' = r
          /\ ret' = Return(r)
    /\ op' = Called("Run", "")
    /\ filters' = <<>>
    /\ SerialFrame

\* data = run.to_dict()
RunToDict ==
    /\ phase = "serial"
    /\ new_run # PyNone
    /\ op' = Called("Run.to_dict", "")
    /\ ret' = Return(Run_to_dict(new_run))
    /\ UNCHANGED <<new_run, filters>>
    /\ SerialFrame

\* Run.from_dict(data), at any later instant
RunFromDict ==
    /\ phase = "serial"
    /\ op.name = "Run.to_dict"
    /\ \E t \in Instants : ret' = Run_from_dict(ret.value, 0, isoformat(t))
    /\ op' = Called("Run.from_dict", "")
    /\ UNCHANGED <<new_run, filters>>
    /\ SerialFrame

\* f = SalesFilters(...), ProcurementFilters(...) or FinanceFilters(...)
NewFilterSet ==
    /\ phase = "serial"
    /\ op = NoOp
    /\ \E f \in FilterSets(domain) : ret' = Return(f)
    /\ op' = Called("FilterSet", "")
    /\ new_run' = PyNone
    /\ filters' = <<>>
    /\ SerialFrame

\* data = f.to_dict(); the operation keeps its receiver as argument
FilterSetToDict ==
    /\ phase = "serial"
    /\ op.name = "FilterSet"
    /\ op' = Called("to_dict", ret.value)
    /\ ret' = Return(FilterSet_to_dict(ret.value))
    /\ filters' = FilterSet_to_dict(ret.value)
    /\ UNCHANGED new_run
    /\ SerialFrame

\* create_filters_from_dict(domain, data)
FiltersFromDict ==
    /\ phase = "serial"
    /\ op.name = "to_dict"
    /\ op' = Called("create_filters_from_dict", domain)
    /\ ret' = create_filters_from_dict(domain, filters)
    /\ UNCHANGED <<new_run, filters>>
    /\ SerialFrame

NextSerial ==
    \/ NewRun
    \/ RunToDict
    \/ RunFromDict
    \/ NewFilterSet
    \/ FilterSetToDict
    \/ FiltersFromDict

SpecSerial == InitSerial /\ [][NextSerial]_vars

-----------------------------------------------------------------------------
(* Properties of serialization *)

\* C30: Run.from_dict(r.to_dict()) returns a Run equal to r in every field
\* (id, domain, filters, executed_at, status, results, sql_preview), whenever
\* it is read back; create_filters_from_dict(domain, f.to_dict()) returns a
\* filter set equal to f, for every filter set f of the domain.
C30_RoundTrips ==
    [][/\ (op.name = "Run.to_dict" /\ op'.name = "Run.from_dict") =>
             ret' = Return(new_run)
       /\ (op.name = "to_dict" /\ op'.name = "create_filters_from_dict") =>
             ret' = Return(op.arg)]_vars

\* a completed run with filters and results was read back
C30_Witness ==
    /\ phase = "serial"
    /\ op.name = "Run.from_dict"
    /\ ret.raised = ""
    /\ ret.value.status = RunStatusMember("COMPLETED")
    /\ ret.value.filters # <<>>
    /\ ret.value.results # <<>>
    /\ ret.value.id = new_run.id

\* a sales filter set with both bounds and a selection was read back
C30_FilterSetRead ==
    /\ phase = "serial"
    /\ op.name = "create_filters_from_dict"
    /\ ret.raised = ""
    /\ ret.value.class = "SalesFilters"
    /\ ret.value.fields[1].v.type = "date"
    /\ ret.value.fields[2].v.type = "date"
    /\ filters[1].v.type = "str"
    /\ Len(ret.value.fields[3].v.v) = 2

=============================================================================
